---- MODULE Spec2Model ----
(***************************************************************************)
(* Model of the property ingestion and retrieval engine of                 *)
(* private-foundry: publishToDatabase (json-uploader/actions.ts) and its   *)
(* caller (json-uploader/page.tsx), deleteProperty, searchProperties,      *)
(* updatePropertyNotes, toggleContactedAgent and uploadImageToS3           *)
(* (property-workbench/actions.ts), the upload pipeline of                 *)
(* ImageUploader.tsx and the lists of PropertyWorkbenchClient.tsx, over    *)
(* the record store declared in the Prisma schema.                         *)
(***************************************************************************)
EXTENDS Integers, Sequences, FiniteSets, TLC

VARIABLES
    property,          \* table "property": sequence of rows in physical order
    other_images,      \* table "other_images": set of rows
    unstaged_images,   \* table "unstaged_images": set of rows
    generated_images,  \* table "generated_images": set of rows
    nextId,            \* autoincrement counters, one per table
    payload,           \* publishToDatabase: the parsed jsonData of the run
    pubPc,             \* publishToDatabase: position of the run
    pubIdx,            \* publishToDatabase: index of the for-of loop
    published,         \* publishToDatabase: let published
    skipped,           \* publishToDatabase: let skipped
    pubProperty,       \* publishToDatabase: const property (row just created)
    pubResult,         \* publishToDatabase: the returned PublishResult
    pubLog,            \* history: outcome of each item processed so far
    pubWrites,         \* history: number of store writes issued by the run
    pubFailed,         \* history: number of store writes that were rejected
    delPc,             \* deleteProperty: position of the call
    delId,             \* deleteProperty: argument id
    tx,                \* deleteProperty: the uncommitted deletes of the transaction
    delResult,         \* deleteProperty: "none", "success" or "error"
    delBefore,         \* history: the tables when deleteProperty was called
    delFailedAt,       \* history: the step of the transaction that failed
    query,             \* searchProperties: argument searchTerm
    idOnly,            \* searchProperties: argument idOnly
    searchPc,          \* searchProperties: "idle" or "done"
    searchResult,      \* searchProperties: returned sequence of summaries
    searchReads,       \* history: number of store reads issued by the search
    shown,             \* search caller: the rows displayed
    hasMore,           \* search caller: the "more results" signal
    repeated,          \* history: searchProperties was invoked a second time
    touched,           \* history: a row was updated after the first search
    upPc,              \* handleFileUpload: position of the invocation
    upFile,            \* handleFileUpload: type of the file being processed
    upPropertyId,      \* ImageUploader: prop propertyId
    upStreet,          \* ImageUploader: prop streetAddress
    formData,          \* handleFileUpload: the form data sent to the server
    upKey,             \* uploadImageToS3: const fileName
    upResult,          \* uploadImageToS3: the returned result
    isUploading,       \* ImageUploader: state isUploading
    uploadSuccess,     \* ImageUploader: state uploadSuccess
    errorMessage,      \* ImageUploader: state errorMessage
    compressionProgress, \* ImageUploader: state compressionProgress
    watermarkProgress, \* ImageUploader: state watermarkProgress
    timers,            \* pending setTimeout callbacks, counted per state cleared
    s3,                \* the keys of the objects of the bucket
    upRuns,            \* history: number of uploads started
    upEvents,          \* history: stage events of the invocation
    upFailedAt,        \* history: the stage at which the invocation failed
    upBefore,          \* history: the tables when the invocation started
    surfaced,          \* history: the messages shown, with the failed stage
    pubRuns,           \* history: number of runs of publishToDatabase submitted
    pubFirst,          \* history: the result and the rows of the first run
    normItem,          \* the price and daysOnZillow of the item being published
    normPc,            \* position of the item: "idle", "data", "created", "skipped"
    normData,          \* const propertyData: the columns price and days_on_zillow
    normRow,           \* the columns price and days_on_zillow of the row created
    toggleCalls,       \* toggleContactedAgent: per caller, the position, id and flag read
    toggleOk,          \* history: number of calls of toggleContactedAgent that updated
    toggleInitial,     \* history: the flag of the property before the first call
    selectedProperty,  \* PropertyWorkbenchClient: state selectedProperty
    isLoading,         \* PropertyWorkbenchClient: state isLoading
    isToggling,        \* PropertyWorkbenchClient: state isToggling
    isDeleting,        \* PropertyWorkbenchClient: state isDeleting
    newLeads,          \* PropertyWorkbenchClient: state newLeads
    recentlyContactedProperties, \* PropertyWorkbenchClient: state of that name
    fetchCall,         \* fetchProperty: the pending call of getPropertyById
    toggleClosure,     \* handleToggleContact: the state captured by the pending call
    deleteClosure,     \* handleDeleteProperty: the state captured by the pending call
    pipelines          \* ImageUploader: position of each running handleFileUpload

vars == <<property, other_images, unstaged_images, generated_images, nextId,
          payload, pubPc, pubIdx, published, skipped, pubProperty, pubResult,
          pubLog, pubWrites, pubFailed,
          delPc, delId, tx, delResult, delBefore, delFailedAt,
          query, idOnly, searchPc, searchResult, searchReads, shown, hasMore,
          repeated, touched,
          upPc, upFile, upPropertyId, upStreet, formData, upKey, upResult,
          isUploading, uploadSuccess, errorMessage, compressionProgress,
          watermarkProgress, timers, s3, upRuns, upEvents, upFailedAt,
          upBefore, surfaced,
          pubRuns, pubFirst, normItem, normPc, normData, normRow,
          toggleCalls, toggleOk, toggleInitial,
          selectedProperty, isLoading, isToggling, isDeleting, newLeads,
          recentlyContactedProperties, fetchCall, toggleClosure, deleteClosure,
          pipelines>>

storeVars == <<property, other_images, unstaged_images, generated_images, nextId>>
pubVars == <<payload, pubPc, pubIdx, published, skipped, pubProperty, pubResult,
             pubLog, pubWrites, pubFailed>>
delVars == <<delPc, delId, tx, delResult, delBefore, delFailedAt>>
searchVars == <<query, idOnly, searchPc, searchResult, searchReads, shown, hasMore>>
againVars == <<repeated, touched>>
upVars == <<upPc, upFile, upPropertyId, upStreet, formData, upKey, upResult,
            isUploading, uploadSuccess, errorMessage, compressionProgress,
            watermarkProgress, timers, s3, upRuns, upEvents, upFailedAt,
            upBefore, surfaced>>
twiceVars == <<pubRuns, pubFirst>>
normVars == <<normItem, normPc, normData, normRow>>
toggleVars == <<toggleCalls, toggleOk, toggleInitial>>
clientVars == <<selectedProperty, isLoading, isToggling, isDeleting, newLeads,
                recentlyContactedProperties, fetchCall, toggleClosure,
                deleteClosure>>
workVars == <<toggleVars, clientVars, pipelines>>
restVars == <<againVars, upVars, twiceVars, normVars, workVars>>

----------------------------------------------------------------------------
(* Bounds *)

MaxItems == 3        \* longest searchResults list of a payload
MaxUrls == 2         \* longest image list of one item
MaxProps == 2        \* most property rows of the store a delete runs against
MaxOwned == 1        \* most images of one kind a property of that store owns
MaxRows == 2         \* most property rows of the store a search runs against
MaxTime == 2         \* latest updated_at of a row
MaxManyRows == 36    \* most rows of the store of the truncation checks
MaxCallers == 2      \* most calls of toggleContactedAgent in flight
MaxToggles == 2      \* most calls of toggleContactedAgent of one behaviour
MaxPipelines == 2    \* most invocations of handleFileUpload running at a time

----------------------------------------------------------------------------
(* Values *)

\* A nullable column without a value. Strings are sequences of characters.
NULL == <<"NULL">>

\* JSON values as far as the code distinguishes them: a missing key (or
\* null), a falsy scalar, a truthy non-array value, and an array.
Absent == [kind |-> "absent", elems |-> <<>>]
Falsy == [kind |-> "falsy", elems |-> <<>>]
Scalar == [kind |-> "scalar", elems |-> <<>>]
Array(s) == [kind |-> "list", elems |-> s]

\* JavaScript truthiness of a JSON value (arrays, also empty ones, are truthy).
Truthy(v) == v.kind \in {"scalar", "list"}

IsArray(v) == v.kind = "list"

SeqsUpTo(S, n) == UNION {[1..k -> S] : k \in 0..n}

RECURSIVE Sum(_, _)
Sum(f, n) == IF n = 0 THEN 0 ELSE f[n] + Sum(f, n - 1)

----------------------------------------------------------------------------
(* The record store *)

EmptyTables == [property |-> <<>>, other_images |-> {}, unstaged_images |-> {},
                generated_images |-> {}]

\* A transaction that has deleted nothing yet.
NoTx == [other_images |-> {}, generated_images |-> {}, unstaged_images |-> {},
         property |-> {}]

Tables == [property |-> property, other_images |-> other_images,
           unstaged_images |-> unstaged_images,
           generated_images |-> generated_images]

PropertyIds(t) == {t.property[i].id : i \in 1..Len(t.property)}

\* The foreign key of the image tables (schema lines 137-165): a row is
\* inserted only when the property it references exists, and not while an
\* open transaction has deleted that property.
ForeignKeyHolds_Unchecked(property_id) == TRUE
ForeignKeyHolds(property_id) ==
    /\ property_id \in PropertyIds(Tables)
    /\ property_id \notin tx.property

\* prisma.property.create: a new row with the next identifier, the
\* contacted flag defaulting to false.
PropertyRow(id, data) ==
    [id |-> id, street_address |-> data.street_address,
     listing_status |-> data.listing_status,
     display_name |-> data.display_name, phone_number |-> data.phone_number,
     updated_at |-> 1, contacted_agent |-> FALSE]

\* prisma.<image>.createMany: one row per url, all referencing property_id.
ImageRows(first, property_id, urls) ==
    {[id |-> first + i - 1, property_id |-> property_id, image_url |-> urls[i]] :
        i \in 1..Len(urls)}

----------------------------------------------------------------------------
(* publishToDatabase (json-uploader/actions.ts) *)

\* A string-valued key of the payload that is missing.
ABSENT == <<"ABSENT">>

\* value || null for a string-valued key: missing and empty become null.
OrNull_Keeps(v) == v
OrNull(v) == IF v = ABSENT \/ v = <<>> THEN NULL ELSE v

\* The sub-objects of an item's property: address and listing are missing
\* or hold their key; of the chain contact_info.propertyInfo.agentInfo the
\* first depth objects are there, and agentInfo holds its keys. The older
\* shape has property.listingStatus and property.agent instead.
NoAddress == [present |-> FALSE, streetAddress |-> ABSENT]
NoListing == [present |-> FALSE, listingStatus |-> ABSENT]
NoAgentInfo == [depth |-> 0, displayName |-> ABSENT, phoneNumber |-> ABSENT]
NoLegacyAgent == [present |-> FALSE, displayName |-> ABSENT, phoneNumber |-> ABSENT]

\* object?.key
Member(object, key) == IF object.present THEN object[key] ELSE ABSENT

\* contact_info?.propertyInfo?.agentInfo?.key
AgentInfoMember(agent, key) == IF agent.depth = 3 THEN agent[key] ELSE ABSENT

Urls(k) == [i \in 1..k |-> i]

\* The items of a searchResults list: the two image lists, and none of the
\* sub-objects.
PublishItems ==
    [unstaged : {Absent, Scalar} \cup {Array(Urls(k)) : k \in 0..MaxUrls},
     highRes : {Absent, Array(Urls(1))},
     address : {NoAddress},
     listing : {NoListing},
     agent : {NoAgentInfo},
     listingStatus : {ABSENT},
     legacyAgent : {NoLegacyAgent}]

\* The payloads: text that is not JSON, the JSON value null, and documents
\* whose searchResults key is missing, falsy, a non-array or an array.
Payloads ==
    [json : {"invalid", "null"}, searchResults : {Absent}]
    \cup [json : {"object"}, searchResults : {Absent, Falsy, Scalar}]
    \cup [json : {"object"},
          searchResults : {Array(s) : s \in SeqsUpTo(PublishItems, MaxItems)}]

NoResult == [success |-> FALSE, published |-> -1, skipped |-> -1, error |-> "none"]
NoProperty == [id |-> 0]

\* JSON.parse(jsonData) throws, or data is null and data.searchResults throws.
ParseThrows(p) == p.json \in {"invalid", "null"}

\* The guard of line 20, negated: searchResults is present and is an array.
StructureOk_NoCheck(data) == TRUE
StructureOk(data) == Truthy(data.searchResults) /\ IsArray(data.searchResults)

\* The guard of lines 35-39, negated: the item has a non-empty unstaged list.
HasUnstaged_NoLength(item) == Truthy(item.unstaged) /\ IsArray(item.unstaged)
HasUnstaged(item) ==
    /\ Truthy(item.unstaged)
    /\ IsArray(item.unstaged)
    /\ Len(item.unstaged.elems) # 0

\* The guard of lines 88-92.
HasHighRes(item) ==
    /\ Truthy(item.highRes)
    /\ IsArray(item.highRes)
    /\ Len(item.highRes.elems) > 0

\* propertyData of lines 45-78, restricted to the columns the model keeps.
PropertyData(item) ==
    [street_address |-> OrNull(Member(item.address, "streetAddress")),
     listing_status |-> OrNull(Member(item.listing, "listingStatus")),
     display_name |-> OrNull(AgentInfoMember(item.agent, "displayName")),
     phone_number |-> OrNull(AgentInfoMember(item.agent, "phoneNumber"))]

Items == payload.searchResults.elems
CurrentItem == Items[pubIdx]

\* Lines 15-28 and 121-129: parse, then the structural check.
publishToDatabase_begin ==
    /\ pubPc = "idle"
    /\ \E p \in Payloads :
        /\ payload' = p
        /\ IF ParseThrows(p)
           THEN /\ pubResult' = [success |-> FALSE, published |-> 0,
                                 skipped |-> 0, error |-> "exception"]
                /\ pubPc' = "done"
           ELSE IF ~StructureOk(p)
           THEN /\ pubResult' = [success |-> FALSE, published |-> 0,
                                 skipped |-> 0, error |-> "Invalid JSON structure"]
                /\ pubPc' = "done"
           ELSE /\ pubResult' = pubResult
                /\ pubPc' = "loop"
    /\ published' = 0
    /\ skipped' = 0
    /\ pubIdx' = 1
    /\ UNCHANGED <<pubProperty, pubLog, pubWrites, pubFailed>>
    /\ UNCHANGED <<storeVars, delVars, searchVars, restVars>>

\* Lines 110-113: the catch of one item; the loop goes on with the next item.
CatchPropertyError_Abort ==
    /\ skipped' = skipped
    /\ published' = published
    /\ pubIdx' = pubIdx
    /\ pubLog' = Append(pubLog, "error")
    /\ pubFailed' = pubFailed + 1
    /\ pubResult' = [success |-> FALSE, published |-> 0, skipped |-> 0,
                     error |-> "exception"]
    /\ pubPc' = "done"
CatchPropertyError ==
    /\ skipped' = skipped + 1
    /\ published' = published
    /\ pubIdx' = pubIdx + 1
    /\ pubLog' = Append(pubLog, "error")
    /\ pubFailed' = pubFailed + 1
    /\ pubResult' = pubResult
    /\ pubPc' = "loop"

\* Lines 30-83: the unstaged check of the next item, then property.create.
publishToDatabase_item ==
    /\ pubPc = "loop"
    /\ pubIdx <= Len(Items)
    /\ IF ~HasUnstaged(CurrentItem)
       THEN /\ skipped' = skipped + 1
            /\ pubIdx' = pubIdx + 1
            /\ pubLog' = Append(pubLog, "noUnstaged")
            /\ UNCHANGED <<storeVars, published, pubProperty, pubResult, pubPc,
                           pubWrites, pubFailed>>
       ELSE /\ pubWrites' = pubWrites + 1
            /\ \/ /\ property' = Append(property,
                        PropertyRow(nextId.property, PropertyData(CurrentItem)))
                  /\ nextId' = [nextId EXCEPT !.property = @ + 1]
                  /\ pubProperty' = [id |-> nextId.property]
                  /\ pubPc' = "otherImages"
                  /\ UNCHANGED <<other_images, unstaged_images, generated_images,
                                 published, skipped, pubIdx, pubResult, pubLog,
                                 pubFailed>>
               \/ /\ CatchPropertyError
                  /\ UNCHANGED <<storeVars, pubProperty>>
    /\ UNCHANGED <<payload, delVars, searchVars, restVars>>

\* Lines 85-99: otherImage.createMany when there are high-res images.
publishToDatabase_otherImages ==
    /\ pubPc = "otherImages"
    /\ IF HasHighRes(CurrentItem)
       THEN /\ pubWrites' = pubWrites + 1
            /\ \/ /\ ForeignKeyHolds(pubProperty.id)
                  /\ other_images' = other_images \cup
                        ImageRows(nextId.other_images, pubProperty.id,
                                  CurrentItem.highRes.elems)
                  /\ nextId' = [nextId EXCEPT !.other_images =
                                    @ + Len(CurrentItem.highRes.elems)]
                  /\ pubPc' = "unstagedImages"
                  /\ UNCHANGED <<property, unstaged_images, generated_images,
                                 published, skipped, pubIdx, pubResult, pubLog,
                                 pubFailed>>
               \/ /\ CatchPropertyError
                  /\ UNCHANGED storeVars
       ELSE /\ pubPc' = "unstagedImages"
            /\ UNCHANGED <<storeVars, published, skipped, pubIdx, pubResult,
                           pubLog, pubWrites, pubFailed>>
    /\ UNCHANGED <<payload, pubProperty, delVars, searchVars, restVars>>

\* Lines 101-109: unstagedImage.createMany, then published++.
publishToDatabase_unstagedImages_Skips ==
    /\ pubPc = "unstagedImages"
    /\ pubWrites' = pubWrites + 1
    /\ \/ /\ unstaged_images' = unstaged_images \cup
                ImageRows(nextId.unstaged_images, pubProperty.id,
                          CurrentItem.unstaged.elems)
          /\ nextId' = [nextId EXCEPT !.unstaged_images =
                            @ + Len(CurrentItem.unstaged.elems)]
          /\ skipped' = skipped + 1
          /\ pubIdx' = pubIdx + 1
          /\ pubLog' = Append(pubLog, "published")
          /\ pubPc' = "loop"
          /\ UNCHANGED <<property, other_images, generated_images, published,
                         pubResult, pubFailed>>
       \/ /\ CatchPropertyError
          /\ UNCHANGED storeVars
    /\ UNCHANGED <<payload, pubProperty, delVars, searchVars, restVars>>
publishToDatabase_unstagedImages ==
    /\ pubPc = "unstagedImages"
    /\ pubWrites' = pubWrites + 1
    /\ \/ /\ ForeignKeyHolds(pubProperty.id)
          /\ unstaged_images' = unstaged_images \cup
                ImageRows(nextId.unstaged_images, pubProperty.id,
                          CurrentItem.unstaged.elems)
          /\ nextId' = [nextId EXCEPT !.unstaged_images =
                            @ + Len(CurrentItem.unstaged.elems)]
          /\ published' = published + 1
          /\ pubIdx' = pubIdx + 1
          /\ pubLog' = Append(pubLog, "published")
          /\ pubPc' = "loop"
          /\ UNCHANGED <<property, other_images, generated_images, skipped,
                         pubResult, pubFailed>>
       \/ /\ CatchPropertyError
          /\ UNCHANGED storeVars
    /\ UNCHANGED <<payload, pubProperty, delVars, searchVars, restVars>>

\* Lines 116-120: the loop is over.
publishToDatabase_return ==
    /\ pubPc = "loop"
    /\ pubIdx > Len(Items)
    /\ pubResult' = [success |-> TRUE, published |-> published,
                     skipped |-> skipped, error |-> "none"]
    /\ pubPc' = "done"
    /\ UNCHANGED <<payload, pubIdx, published, skipped, pubProperty, pubLog,
                   pubWrites, pubFailed>>
    /\ UNCHANGED <<storeVars, delVars, searchVars, restVars>>

StoreEmpty ==
    /\ property = <<>>
    /\ other_images = {}
    /\ unstaged_images = {}
    /\ generated_images = {}
    /\ nextId = [property |-> 1, other_images |-> 1, unstaged_images |-> 1,
                 generated_images |-> 1]

PublishIdle ==
    /\ payload = [json |-> "object", searchResults |-> Absent]
    /\ pubPc = "idle"
    /\ pubIdx = 1
    /\ published = 0
    /\ skipped = 0
    /\ pubProperty = NoProperty
    /\ pubResult = NoResult
    /\ pubLog = <<>>
    /\ pubWrites = 0
    /\ pubFailed = 0

DeleteIdle ==
    /\ delPc = "idle"
    /\ delId = 0
    /\ tx = NoTx
    /\ delResult = "none"
    /\ delBefore = EmptyTables
    /\ delFailedAt = "none"

SearchIdle ==
    /\ query = <<>>
    /\ idOnly = FALSE
    /\ searchPc = "idle"
    /\ searchResult = <<>>
    /\ searchReads = 0
    /\ shown = <<>>
    /\ hasMore = FALSE
    /\ repeated = FALSE
    /\ touched = FALSE

\* errorMessage === null
NoMessage == "(null)"

\* No result of uploadImageToS3 yet.
NoUpload == [success |-> FALSE, error |-> NoMessage]

NoFormData == [file |-> NULL, propertyId |-> <<>>, streetAddress |-> <<>>]

NoTimers == [errorMessage |-> 0, uploadSuccess |-> 0]

\* The state of a mounted ImageUploader (lines 18-24) before any upload.
UploadIdle ==
    /\ upPc = "idle"
    /\ upFile = <<>>
    /\ upPropertyId = 0
    /\ upStreet = NULL
    /\ formData = NoFormData
    /\ upKey = <<>>
    /\ upResult = NoUpload
    /\ isUploading = FALSE
    /\ uploadSuccess = FALSE
    /\ errorMessage = NoMessage
    /\ compressionProgress = 0
    /\ watermarkProgress = 0
    /\ timers = NoTimers
    /\ s3 = {}
    /\ upRuns = 0
    /\ upEvents = <<>>
    /\ upFailedAt = "none"
    /\ upBefore = EmptyTables
    /\ surfaced = {}

\* No run of publishToDatabase submitted yet.
TwiceIdle ==
    /\ pubRuns = 0
    /\ pubFirst = [result |-> NoResult, rows |-> 0]

\* A number-valued or string-valued key of an item, or a missing one; at
\* is "bare" for the key itself and "value" for its member value.
NoValue == [at |-> "bare", kind |-> "absent", num |-> 0, str |-> <<>>]

\* A nullable numeric column: null, a number, or a value of another type.
NullColumn == [kind |-> "null", num |-> 0, str |-> <<>>]

NormalizeIdle ==
    /\ normItem = [price |-> NoValue, daysOnZillow |-> NoValue]
    /\ normPc = "idle"
    /\ normData = [price |-> NullColumn, days_on_zillow |-> NullColumn]
    /\ normRow = [price |-> NullColumn, days_on_zillow |-> NullColumn]

\* No call of toggleContactedAgent has been made.
Callers == 1..MaxCallers
NoCall == [pc |-> "idle", id |-> 0, contacted_agent |-> FALSE]
ToggleIdle ==
    /\ toggleCalls = [caller \in Callers |-> NoCall]
    /\ toggleOk = 0
    /\ toggleInitial = FALSE

\* No workbench is mounted; id 0 stands for a null selectedProperty.
NoSelection == [id |-> 0, street_address |-> NULL, contacted_agent |-> FALSE]
NoClosure == [selectedProperty |-> NoSelection, newLeads |-> <<>>,
              recentlyContactedProperties |-> <<>>]
NoFetch == [pc |-> "idle", id |-> 0, property |-> NoSelection]
ClientIdle ==
    /\ selectedProperty = NoSelection
    /\ isLoading = FALSE
    /\ isToggling = FALSE
    /\ isDeleting = FALSE
    /\ newLeads = <<>>
    /\ recentlyContactedProperties = <<>>
    /\ fetchCall = NoFetch
    /\ toggleClosure = NoClosure
    /\ deleteClosure = NoClosure

\* No invocation of handleFileUpload is running side by side.
NoPipeline == [pc |-> "idle", at |-> 0, success |-> FALSE, error |-> "(null)"]
PipelinesIdle == pipelines = [slot \in 1..MaxPipelines |-> NoPipeline]

WorkIdle == ToggleIdle /\ ClientIdle /\ PipelinesIdle
RestIdle == UploadIdle /\ TwiceIdle /\ NormalizeIdle /\ WorkIdle

\* One ingestion run against an empty store.
InitPublish == StoreEmpty /\ PublishIdle /\ DeleteIdle /\ SearchIdle /\ RestIdle

NextPublish ==
    \/ publishToDatabase_begin
    \/ publishToDatabase_item
    \/ publishToDatabase_otherImages
    \/ publishToDatabase_unstagedImages
    \/ publishToDatabase_return

SpecPublish == InitPublish /\ [][NextPublish]_vars

----------------------------------------------------------------------------
(* Properties of publishToDatabase *)

\* The item's unstaged-image list is absent, not a list, or an empty list.
LacksUnstaged(item) ==
    item.unstaged.kind # "list" \/ Len(item.unstaged.elems) = 0

PayloadIsList == payload.json = "object" /\ payload.searchResults.kind = "list"

NumItems == Len(Items)
NumAcceptable == Cardinality({i \in 1..Len(Items) : ~LacksUnstaged(Items[i])})

\* C1: whenever the loop processes an item whose unstaged-image list is
\* absent, not a list or empty, the skipped count grows by exactly one, the
\* published count stays, no store write is issued and no row of any table
\* is created.
C1_SkipWithoutUnstaged ==
    [][(/\ pubPc = "loop"
        /\ pubIdx <= Len(Items)
        /\ LacksUnstaged(CurrentItem)
        /\ pubIdx' # pubIdx)
       => (/\ skipped' = skipped + 1
           /\ published' = published
           /\ pubIdx' = pubIdx + 1
           /\ pubWrites' = pubWrites
           /\ Tables' = Tables)]_vars

C1_Witness ==
    /\ pubPc = "done"
    /\ \E i, j \in 1..Len(pubLog) :
        /\ pubLog[i] = "noUnstaged"
        /\ Items[i].unstaged = Array(<<>>)
        /\ pubLog[j] = "published"

\* C2: a run over a list of N items of which K have a non-empty unstaged
\* list, in which no store write was rejected, returns success with
\* published = K and skipped = N - K, and has created exactly K property rows.
C2_PublishedAndSkippedCounts ==
    (pubPc = "done" /\ PayloadIsList /\ pubFailed = 0)
    => (/\ pubResult.success
        /\ pubResult.published = NumAcceptable
        /\ pubResult.skipped = NumItems - NumAcceptable
        /\ Len(property) = NumAcceptable)

C2_Witness ==
    /\ pubPc = "done"
    /\ PayloadIsList
    /\ pubFailed = 0
    /\ NumItems = 3
    /\ NumAcceptable = 2
    /\ pubResult.published = 2

\* C3: a run whose payload has no searchResults list returns success = false
\* with an error message, published = 0 and skipped = 0, and has issued no
\* store write.
C3_StructuralErrorAborts ==
    (pubPc = "done" /\ ~PayloadIsList)
    => (/\ pubResult.success = FALSE
        /\ pubResult.error # "none"
        /\ pubResult.published = 0
        /\ pubResult.skipped = 0
        /\ pubWrites = 0
        /\ Tables = EmptyTables)

C3_Witness ==
    /\ pubPc = "done"
    /\ payload.json = "object"
    /\ payload.searchResults = Scalar
    /\ pubResult.error = "Invalid JSON structure"

\* C4: a rejected store write is counted as exactly one skip and the loop
\* goes on with the next item; every run that passed the structural check
\* processes all items of the list and returns success = true.
C4_WriteFailureIsolated ==
    /\ [][(pubFailed' = pubFailed + 1)
          => (/\ skipped' = skipped + 1
              /\ published' = published
              /\ pubIdx' = pubIdx + 1
              /\ pubPc' = "loop")]_vars
    /\ [](pubPc = "done" /\ PayloadIsList
          => (/\ pubResult.success
              /\ Len(pubLog) = NumItems
              /\ pubResult.published + pubResult.skipped = NumItems))

C4_Witness ==
    /\ pubPc = "done"
    /\ pubResult.success
    /\ \E i, j \in 1..Len(pubLog) :
        /\ i < j
        /\ pubLog[i] = "error"
        /\ pubLog[j] = "published"

----------------------------------------------------------------------------
(* deleteProperty (property-workbench/actions.ts) *)

RowsOf(table, id) == {r \in table : r.property_id = id}

RECURSIVE RemoveIds(_, _)
RemoveIds(rows, ids) ==
    IF rows = <<>> THEN <<>>
    ELSE IF Head(rows).id \in ids THEN RemoveIds(Tail(rows), ids)
    ELSE <<Head(rows)>> \o RemoveIds(Tail(rows), ids)

\* The tables once the deletes of transaction t are applied. The image
\* tables reference property with onDelete: Cascade.
Applied(t) ==
    [property |-> RemoveIds(property, t.property),
     other_images |-> {r \in other_images \ t.other_images :
                          r.property_id \notin t.property},
     unstaged_images |-> {r \in unstaged_images \ t.unstaged_images :
                             r.property_id \notin t.property},
     generated_images |-> {r \in generated_images \ t.generated_images :
                              r.property_id \notin t.property}]

SetTables(t) ==
    /\ property' = t.property
    /\ other_images' = t.other_images
    /\ unstaged_images' = t.unstaged_images
    /\ generated_images' = t.generated_images

\* Line 209: the call; prisma.$transaction opens the transaction.
deleteProperty_begin ==
    /\ delPc = "idle"
    /\ \E id \in 1..(Len(property) + 1) :
        delId' = id
    /\ delPc' = "other"
    /\ tx' = NoTx
    /\ delBefore' = Tables
    /\ UNCHANGED <<delResult, delFailedAt>>
    /\ UNCHANGED <<storeVars, pubVars, searchVars, restVars>>

\* A statement of the transaction throws: the transaction is rolled back
\* and the catch of lines 236-239 throws 'Failed to delete property'.
Rollback_KeepsDeletes ==
    /\ SetTables(Applied(tx))
    /\ tx' = NoTx
    /\ delResult' = "error"
    /\ delFailedAt' = delPc
    /\ delPc' = "done"
    /\ UNCHANGED <<nextId, delId, delBefore>>
Rollback ==
    /\ tx' = NoTx
    /\ delResult' = "error"
    /\ delFailedAt' = delPc
    /\ delPc' = "done"
    /\ UNCHANGED <<storeVars, delId, delBefore>>

\* Lines 214-216: tx.otherImage.deleteMany.
deleteProperty_otherImage ==
    /\ delPc = "other"
    /\ \/ /\ tx' = [tx EXCEPT !.other_images = RowsOf(other_images, delId)]
          /\ delPc' = "generated"
          /\ UNCHANGED <<storeVars, delId, delResult, delBefore, delFailedAt>>
       \/ Rollback
    /\ UNCHANGED <<pubVars, searchVars, restVars>>

\* Lines 218-220: tx.generatedImage.deleteMany.
deleteProperty_generatedImage ==
    /\ delPc = "generated"
    /\ \/ /\ tx' = [tx EXCEPT !.generated_images = RowsOf(generated_images, delId)]
          /\ delPc' = "unstaged"
          /\ UNCHANGED <<storeVars, delId, delResult, delBefore, delFailedAt>>
       \/ Rollback
    /\ UNCHANGED <<pubVars, searchVars, restVars>>

\* Lines 222-224: tx.unstagedImage.deleteMany.
deleteProperty_unstagedImage ==
    /\ delPc = "unstaged"
    /\ \/ /\ tx' = [tx EXCEPT !.unstaged_images = RowsOf(unstaged_images, delId)]
          /\ delPc' = "property"
          /\ UNCHANGED <<storeVars, delId, delResult, delBefore, delFailedAt>>
       \/ Rollback
    /\ UNCHANGED <<pubVars, searchVars, restVars>>

\* Lines 227-229: tx.property.delete, which throws when no row has the id.
deleteProperty_property ==
    /\ delPc = "property"
    /\ \/ /\ delId \in PropertyIds(Tables)
          /\ tx' = [tx EXCEPT !.property = {delId}]
          /\ delPc' = "commit"
          /\ UNCHANGED <<storeVars, delId, delResult, delBefore, delFailedAt>>
       \/ Rollback
    /\ UNCHANGED <<pubVars, searchVars, restVars>>

\* Lines 230-235: the callback returns, the transaction commits.
deleteProperty_commit ==
    /\ delPc = "commit"
    /\ \/ /\ SetTables(Applied(tx))
          /\ tx' = NoTx
          /\ delResult' = "success"
          /\ delPc' = "done"
          /\ UNCHANGED <<nextId, delId, delBefore, delFailedAt>>
       \/ Rollback
    /\ UNCHANGED <<pubVars, searchVars, restVars>>

\* The stores a delete runs against: properties 1..n, property p owning
\* c[p].m other, c[p].u unstaged and c[p].g generated images.
ImageCounts == [m : 0..MaxOwned, u : 0..MaxOwned, g : 0..MaxOwned]

SeedImages(c, n, kind) ==
    UNION {ImageRows(Sum([q \in 1..n |-> c[q][kind]], p - 1) + 1, p, Urls(c[p][kind])) :
              p \in 1..n}

SeedProperty(n) ==
    [p \in 1..n |-> PropertyRow(p, [street_address |-> NULL,
                                    listing_status |-> NULL,
                                    display_name |-> NULL, phone_number |-> NULL])]

InitDelete ==
    /\ \E n \in 0..MaxProps : \E c \in [1..n -> ImageCounts] :
        /\ property = SeedProperty(n)
        /\ other_images = SeedImages(c, n, "m")
        /\ unstaged_images = SeedImages(c, n, "u")
        /\ generated_images = SeedImages(c, n, "g")
        /\ nextId = [property |-> n + 1,
                     other_images |-> Cardinality(SeedImages(c, n, "m")) + 1,
                     unstaged_images |-> Cardinality(SeedImages(c, n, "u")) + 1,
                     generated_images |-> Cardinality(SeedImages(c, n, "g")) + 1]
    /\ PublishIdle /\ DeleteIdle /\ SearchIdle /\ RestIdle

NextDelete ==
    \/ deleteProperty_begin
    \/ deleteProperty_otherImage
    \/ deleteProperty_generatedImage
    \/ deleteProperty_unstagedImage
    \/ deleteProperty_property
    \/ deleteProperty_commit

SpecDelete == InitDelete /\ [][NextDelete]_vars

HasRowsFor(t, id) ==
    \/ id \in PropertyIds(t)
    \/ RowsOf(t.other_images, id) # {}
    \/ RowsOf(t.unstaged_images, id) # {}
    \/ RowsOf(t.generated_images, id) # {}

\* The rows of tables t that do not belong to property id.
Without(t, id) ==
    [property |-> SelectSeq(t.property, LAMBDA r : r.id # id),
     other_images |-> t.other_images \ RowsOf(t.other_images, id),
     unstaged_images |-> t.unstaged_images \ RowsOf(t.unstaged_images, id),
     generated_images |-> t.generated_images \ RowsOf(t.generated_images, id)]

\* C5: deleteProperty is all-or-nothing. After a successful call no row of
\* property, other_images, unstaged_images or generated_images belongs to
\* the deleted id and the rows of other properties are as before; after a
\* call in which a step of the transaction failed the caller has an error
\* and all four tables are as they were before the call; while the
\* transaction is open the tables are as they were before the call.
C5_DeleteAllOrNothing ==
    /\ (delPc = "done" /\ delResult = "success")
        => (~HasRowsFor(Tables, delId) /\ Tables = Without(delBefore, delId))
    /\ (delPc = "done" /\ delFailedAt # "none")
        => (delResult = "error" /\ Tables = delBefore)
    /\ (delPc = "done") => (delResult = "success" \/ delFailedAt # "none")
    /\ (delPc \notin {"idle", "done"}) => Tables = delBefore

C5_Witness ==
    /\ delPc = "done"
    /\ delResult = "error"
    /\ delFailedAt = "property"
    /\ delId \in PropertyIds(Tables)
    /\ RowsOf(other_images, delId) # {}
    /\ RowsOf(unstaged_images, delId) # {}
    /\ RowsOf(generated_images, delId) # {}

----------------------------------------------------------------------------
(* searchProperties (property-workbench/actions.ts) *)

\* JavaScript's parseInt result when it does not fit the Int column.
OutOfRange == -1

MaxInt32 == 2147483647

Digits == {"0", "1", "7", "9"}

DigitValue(c) == CASE c = "0" -> 0 [] c = "1" -> 1 [] c = "7" -> 7 [] c = "9" -> 9

IsSpace(c) == c = " "

\* String.prototype.trim
RECURSIVE TrimStart(_)
TrimStart(s) ==
    IF s # <<>> /\ IsSpace(Head(s)) THEN TrimStart(Tail(s)) ELSE s

RECURSIVE TrimEnd(_)
TrimEnd(s) ==
    IF s # <<>> /\ IsSpace(s[Len(s)]) THEN TrimEnd(SubSeq(s, 1, Len(s) - 1)) ELSE s

Trim(s) == TrimEnd(TrimStart(s))

\* /^\d+$/.test(s)
IsNumeric(s) == s # <<>> /\ \A i \in 1..Len(s) : s[i] \in Digits

\* parseInt of a string of digits.
RECURSIVE ParseIntFrom(_, _)
ParseIntFrom(s, acc) ==
    IF s = <<>> THEN acc
    ELSE IF acc > (MaxInt32 - DigitValue(Head(s))) \div 10 THEN OutOfRange
    ELSE ParseIntFrom(Tail(s), acc * 10 + DigitValue(Head(s)))

ParseInt(s) == ParseIntFrom(s, 0)

\* Case folding of mode: 'insensitive'.
LowerChar(c) == CASE c = "M" -> "m" [] c = "S" -> "s" [] OTHER -> c

ToLower(s) == [i \in 1..Len(s) |-> LowerChar(s[i])]

\* { contains: term, mode: 'insensitive' }; a null column never matches.
ContainsInsensitive(field, term) ==
    /\ field # NULL
    /\ \E i \in 1..(Len(field) - Len(term) + 1) :
        SubSeq(ToLower(field), i, i + Len(term) - 1) = ToLower(term)

\* { equals: term, mode: 'insensitive' }
EqualsInsensitive_Prefix(field, term) ==
    /\ field # NULL
    /\ Len(field) >= Len(term)
    /\ SubSeq(ToLower(field), 1, Len(term)) = ToLower(term)
EqualsInsensitive(field, term) ==
    /\ field # NULL
    /\ ToLower(field) = ToLower(term)

\* searchTerm.match(/^"(.*)"$/): whether it matches, and its group 1.
IsQuoted(s) == Len(s) >= 2 /\ s[1] = "\"" /\ s[Len(s)] = "\""

Unquote(s) == SubSeq(s, 2, Len(s) - 1)

\* take: 31
TakeLimit_Thirty == 30
TakeLimit == 31

Take(rows, n) == SubSeq(rows, 1, IF Len(rows) < n THEN Len(rows) ELSE n)

\* orderBy: { updated_at: 'desc' }; rows of equal updated_at keep the order
\* in which the table holds them.
RECURSIVE OrderFrom(_, _)
OrderFrom(rows, t) ==
    IF t = 0 THEN <<>>
    ELSE SelectSeq(rows, LAMBDA r : r.updated_at = t) \o OrderFrom(rows, t - 1)

LatestUpdate(rows) ==
    IF rows = <<>> THEN 0
    ELSE CHOOSE t \in {rows[i].updated_at : i \in 1..Len(rows)} :
            \A i \in 1..Len(rows) : rows[i].updated_at <= t

OrderByUpdatedDesc_Unordered(rows) == rows
OrderByUpdatedDesc(rows) == OrderFrom(rows, LatestUpdate(rows))

\* prisma.property.findUnique({ where: { id } })
FindUnique(id) == SelectSeq(property, LAMBDA r : r.id = id)

\* Lines 333-357.
performExactSearch(term) ==
    Take(OrderByUpdatedDesc(SelectSeq(property, LAMBDA r :
            \/ EqualsInsensitive(r.street_address, term)
            \/ EqualsInsensitive(r.display_name, term)
            \/ EqualsInsensitive(r.phone_number, term))),
         TakeLimit)

\* Lines 362-388.
performFuzzySearch(searchTerm) ==
    Take(OrderByUpdatedDesc(SelectSeq(property, LAMBDA r :
            \/ ContainsInsensitive(r.street_address, Trim(searchTerm))
            \/ ContainsInsensitive(r.display_name, Trim(searchTerm))
            \/ ContainsInsensitive(r.phone_number, Trim(searchTerm)))),
         TakeLimit)

Found(rows, reads) == [outcome |-> "rows", rows |-> rows, reads |-> reads]

\* The catch of lines 324-327.
Thrown(reads) == [outcome |-> "error", rows |-> <<>>, reads |-> reads]

\* Lines 258-279: the ID-only mode.
searchById(searchTerm) ==
    IF ~IsNumeric(Trim(searchTerm)) THEN Found(<<>>, 0)
    ELSE IF ParseInt(Trim(searchTerm)) = OutOfRange THEN Thrown(1)
    ELSE Found(FindUnique(ParseInt(Trim(searchTerm))), 1)

\* Lines 284-314: a numeric term in normal mode.
searchNumeric_AlwaysPrepend(searchTerm) ==
    LET id == ParseInt(Trim(searchTerm))
        exactIdMatch == FindUnique(id)
        fuzzyMatches == performFuzzySearch(searchTerm)
    IN  IF id = OutOfRange THEN Thrown(1)
        ELSE Found(exactIdMatch \o fuzzyMatches, 2)
searchNumeric(searchTerm) ==
    LET id == ParseInt(Trim(searchTerm))
        exactIdMatch == FindUnique(id)
        fuzzyMatches == performFuzzySearch(searchTerm)
        isDuplicate == \E i \in 1..Len(fuzzyMatches) : fuzzyMatches[i].id = id
    IN  IF id = OutOfRange THEN Thrown(1)
        ELSE IF exactIdMatch # <<>> /\ ~isDuplicate
        THEN Found(exactIdMatch \o fuzzyMatches, 2)
        ELSE Found(fuzzyMatches, 2)

\* Lines 247-328.
searchProperties_NoBlankCheck(searchTerm, idOnlyArg) ==
    IF idOnlyArg THEN searchById(searchTerm)
    ELSE IF IsNumeric(Trim(searchTerm)) THEN searchNumeric(searchTerm)
    ELSE IF IsQuoted(searchTerm) THEN Found(performExactSearch(Unquote(searchTerm)), 1)
    ELSE Found(performFuzzySearch(searchTerm), 1)
searchProperties(searchTerm, idOnlyArg) ==
    IF Trim(searchTerm) = <<>> THEN Found(<<>>, 0)
    ELSE IF idOnlyArg THEN searchById(searchTerm)
    ELSE IF IsNumeric(Trim(searchTerm)) THEN searchNumeric(searchTerm)
    ELSE IF IsQuoted(searchTerm) THEN Found(performExactSearch(Unquote(searchTerm)), 1)
    ELSE Found(performFuzzySearch(searchTerm), 1)

\* The display cap of the caller of searchProperties.
DisplayCap == 30

\* The query strings an operator types.
Queries ==
    {<<>>, <<" ">>, <<"7">>, <<" ", "7", " ">>, <<"1", "7">>, <<"1">>,
     <<"9", "9", "9", "9", "9", "9", "9", "9", "9", "9">>,
     <<"m">>, <<"M">>, <<" ", "m", " ">>, <<"7", " ", "m">>,
     <<"\"", "7", " ", "m", "\"">>, <<"\"", "7", " ", "M", "\"">>,
     <<"\"", "7", "\"">>, <<"\"", "m">>, <<"\"", "\"">>,
     <<" ", "\"", "m", "\"">>}

\* The operator submits a query; the caller of searchProperties keeps the
\* first 30 rows and raises the "more results" signal on a 31st row.
search ==
    /\ searchPc = "idle"
    /\ \E q \in Queries : \E mode \in BOOLEAN :
        LET r == searchProperties(q, mode)
        IN  /\ query' = q
            /\ idOnly' = mode
            /\ searchPc' = IF r.outcome = "error" THEN "error" ELSE "done"
            /\ searchResult' = r.rows
            /\ searchReads' = r.reads
            /\ shown' = Take(r.rows, DisplayCap)
            /\ hasMore' = (Len(r.rows) > DisplayCap)
    /\ UNCHANGED <<storeVars, pubVars, delVars, restVars>>

\* The rows of the stores a search runs against.
\* street_address, display_name and phone_number of a row.
Contacts ==
    {<<<<"7", " ", "m">>, NULL, NULL>>,
     <<<<"7", " ", "M", "s">>, NULL, NULL>>,
     <<NULL, <<"M">>, <<"1", "7">>>>,
     <<<<"7", " ", "m">>, <<"M">>, <<"1", "7">>>>}
SearchIds == {1, 7, 17}

SearchRows ==
    {[id |-> i, street_address |-> c[1], display_name |-> c[2],
      phone_number |-> c[3], updated_at |-> t, contacted_agent |-> FALSE] :
        i \in SearchIds, c \in Contacts, t \in 1..MaxTime}

DistinctIds(rows) ==
    \A i, j \in 1..Len(rows) : i # j => rows[i].id # rows[j].id

\* The autoincrement counters of a store without images, past every id.
NextIdAfter(rows) ==
    [property |-> 1 + Len(rows) + Sum([i \in 1..Len(rows) |-> rows[i].id], Len(rows)),
     other_images |-> 1, unstaged_images |-> 1, generated_images |-> 1]

\* Stores of many rows with identifiers 1..n, of which the first or the
\* last k carry the street address "7 m".
ManyRows(n, k, side) ==
    [i \in 1..n |->
        [id |-> i,
         street_address |->
            IF (side = "first" /\ i <= k) \/ (side = "last" /\ i > n - k)
            THEN <<"7", " ", "m">> ELSE NULL,
         display_name |-> NULL, phone_number |-> NULL,
         updated_at |-> (i % MaxTime) + 1, contacted_agent |-> FALSE]]

ManyStores ==
    {ManyRows(n, k, side) : n \in (MaxManyRows - 7)..MaxManyRows,
                            k \in 0..MaxManyRows, side \in {"first", "last"}}

\* Searches against every store of at most MaxRows rows and against the
\* stores of many rows.
InitSearch ==
    /\ \/ property \in SeqsUpTo(SearchRows, MaxRows) /\ DistinctIds(property)
       \/ property \in ManyStores
    /\ other_images = {}
    /\ unstaged_images = {}
    /\ generated_images = {}
    /\ nextId = NextIdAfter(property)
    /\ PublishIdle /\ DeleteIdle /\ SearchIdle /\ RestIdle

NextSearch == search

SpecSearch == InitSearch /\ [][NextSearch]_vars

----------------------------------------------------------------------------
(* Properties of searchProperties *)

SameLetter(a, b) == LowerChar(a) = LowerChar(b)

\* Column value f contains text t, ignoring case.
FieldContains(f, t) ==
    /\ f # NULL
    /\ \E k \in 0..(Len(f) - Len(t)) : \A j \in 1..Len(t) : SameLetter(f[k + j], t[j])

\* Column value f is text t, ignoring case.
FieldEquals(f, t) ==
    /\ f # NULL
    /\ Len(f) = Len(t)
    /\ \A j \in 1..Len(t) : SameLetter(f[j], t[j])

RowContains(r, t) ==
    \/ FieldContains(r.street_address, t)
    \/ FieldContains(r.display_name, t)
    \/ FieldContains(r.phone_number, t)

RowEquals(r, t) ==
    \/ FieldEquals(r.street_address, t)
    \/ FieldEquals(r.display_name, t)
    \/ FieldEquals(r.phone_number, t)

StoredRows == {property[i] : i \in 1..Len(property)}
ResultRows == {searchResult[i] : i \in 1..Len(searchResult)}

QueryIsBlank == \A i \in 1..Len(query) : query[i] = " "
QueryIsNumeric ==
    /\ ~QueryIsBlank
    /\ \A i \in 1..Len(query) : query[i] \in Digits \/ query[i] = " "
    /\ \A i, j, k \in 1..Len(query) :
        (i < j /\ j < k /\ query[i] # " " /\ query[k] # " ") => query[j] # " "
QueryIsQuoted == Len(query) >= 2 /\ query[1] = "\"" /\ query[Len(query)] = "\""
QueryText == Trim(query)
QuotedText == SubSeq(query, 2, Len(query) - 1)

\* The rows whose identifier the numeric query names.
RowsNamed == {r \in StoredRows : r.id = ParseInt(QueryText)}

\* The records that match the query in the mode of the search.
MatchingRows ==
    IF QueryIsBlank THEN {}
    ELSE IF idOnly THEN (IF QueryIsNumeric THEN RowsNamed ELSE {})
    ELSE IF QueryIsNumeric
         THEN RowsNamed \cup {r \in StoredRows : RowContains(r, QueryText)}
    ELSE IF QueryIsQuoted THEN {r \in StoredRows : RowEquals(r, QuotedText)}
    ELSE {r \in StoredRows : RowContains(r, QueryText)}

Min(a, b) == IF a < b THEN a ELSE b

\* C6: in normal mode a numeric query that names the identifier of an
\* existing record has that record as the first element of the result.
C6_ExactIdFirst ==
    (searchPc = "done" /\ ~idOnly /\ QueryIsNumeric /\ RowsNamed # {})
    => (searchResult # <<>> /\ searchResult[1] \in RowsNamed)

\* C7: every search shows at most 30 entries, min(matches, 30) of them, and
\* the overflow signal is raised exactly when more than 30 records match.
C7_CapAndOverflow ==
    (searchPc = "done")
    => (/\ Len(shown) <= 30
        /\ Len(shown) = Min(Cardinality(MatchingRows), 30)
        /\ hasMore <=> (Cardinality(MatchingRows) > 30))

C7_Witness ==
    /\ searchPc = "done"
    /\ Cardinality(MatchingRows) = 35
    /\ Len(shown) = 30
    /\ hasMore

\* C8: every record returned for a query wrapped in double quotes has a
\* street address, display name or phone number that equals the text
\* between the quotes, ignoring case; containing the text is not enough.
C8_QuotedIsExact ==
    (searchPc = "done" /\ QueryIsQuoted)
    => \A r \in ResultRows : RowEquals(r, QuotedText)

C8_Witness ==
    /\ searchPc = "done"
    /\ ~idOnly
    /\ query = <<"\"", "7", " ", "M", "\"">>
    /\ Len(searchResult) = 1
    /\ searchResult[1].street_address = <<"7", " ", "m">>
    /\ \E r \in StoredRows : r.street_address = <<"7", " ", "M", "s">>

\* C9: an unquoted, non-numeric query in normal mode returns the records
\* that contain the trimmed query in one of the three columns, ignoring
\* case: all of them up to the fetch limit of 31, each once, those updated
\* last first.
C9_FuzzyContainsOrdered ==
    (searchPc = "done" /\ ~idOnly /\ ~QueryIsBlank /\ ~QueryIsNumeric
        /\ ~QueryIsQuoted)
    => (/\ ResultRows \subseteq {r \in StoredRows : RowContains(r, QueryText)}
        /\ Len(searchResult) =
              Min(Cardinality({r \in StoredRows : RowContains(r, QueryText)}), 31)
        /\ Cardinality(ResultRows) = Len(searchResult)
        /\ \A i, j \in 1..Len(searchResult) :
              i < j => searchResult[i].updated_at >= searchResult[j].updated_at
        /\ \A r \in StoredRows :
              (RowContains(r, QueryText) /\ r \notin ResultRows)
              => \A i \in 1..Len(searchResult) :
                    searchResult[i].updated_at >= r.updated_at)

C9_Witness ==
    /\ searchPc = "done"
    /\ ~idOnly
    /\ query = <<" ", "m", " ">>
    /\ Len(property) = 2
    /\ Len(searchResult) = 2
    /\ searchResult[1] = property[2]
    /\ searchResult[1].updated_at > searchResult[2].updated_at
    /\ searchResult[2].street_address = NULL
    /\ searchResult[2].display_name = <<"M">>

\* C10: in ID-only mode a query that is not numeric yields an empty result,
\* and a numeric query yields exactly the record with that identifier, or
\* an empty result when there is none.
C10_IdOnlyMode ==
    (searchPc # "idle" /\ idOnly)
    => (/\ searchPc = "done"
        /\ ResultRows = (IF QueryIsNumeric THEN RowsNamed ELSE {})
        /\ Len(searchResult) <= 1)

\* C11: no property identifier appears twice in a result of
\* searchProperties, whichever columns a record matches on and also when
\* the record a numeric query names is among the fuzzy matches.
C11_NoDuplicateIds ==
    (searchPc = "done")
    => \A i, j \in 1..Len(searchResult) :
          i # j => searchResult[i].id # searchResult[j].id

C11_Witness ==
    /\ searchPc = "done"
    /\ ~idOnly
    /\ query = <<"7">>
    /\ Len(searchResult) = 2
    /\ \E i \in 1..2 :
        /\ searchResult[i].id = 7
        /\ FieldContains(searchResult[i].street_address, query)
        /\ FieldContains(searchResult[i].phone_number, query)

\* C13: a query that is empty or consists of spaces returns an empty result
\* in both modes and issues no read to the store.
C13_BlankQueryNoRead ==
    (searchPc # "idle" /\ QueryIsBlank)
    => (searchPc = "done" /\ searchResult = <<>> /\ searchReads = 0)

C13_Witness ==
    /\ searchPc = "done"
    /\ query = <<" ">>
    /\ ~idOnly
    /\ \E r \in StoredRows : r.street_address # NULL
    /\ searchResult = <<>>
    /\ searchReads = 0

\* C14: no search ends in a raised failure, whatever the query string is.
C14_SearchNeverFails == searchPc # "error"

----------------------------------------------------------------------------
(* Repeated searches *)

\* Lines 189-204: prisma.property.update({ where: { id }, data: { notes } }).
\* Of the modelled columns the update changes updated_at (@updatedAt,
\* schema line 129), which becomes the latest one of the table.
updatePropertyNotes ==
    /\ searchPc # "idle"
    /\ ~repeated
    /\ LatestUpdate(property) <= MaxTime
    /\ \E i \in 1..Len(property) :
        property' = [property EXCEPT ![i].updated_at = LatestUpdate(property) + 1]
    /\ touched' = TRUE
    /\ UNCHANGED <<other_images, unstaged_images, generated_images, nextId>>
    /\ UNCHANGED <<pubVars, delVars, searchVars, repeated, upVars, twiceVars, normVars, workVars>>

\* Lines 247-328, invoked again with the arguments of the first call. The
\* function issues findUnique and findMany only.
searchProperties_again_Refreshes ==
    /\ searchPc # "idle"
    /\ ~repeated
    /\ LET r == searchProperties(query, idOnly)
       IN  /\ searchPc' = IF r.outcome = "error" THEN "error" ELSE "done"
           /\ searchResult' = r.rows
           /\ searchReads' = r.reads
           /\ property' = [i \in 1..Len(property) |->
                  IF \E j \in 1..Len(r.rows) : r.rows[j].id = property[i].id
                  THEN [property[i] EXCEPT !.updated_at = LatestUpdate(property) + 1]
                  ELSE property[i]]
    /\ repeated' = TRUE
    /\ UNCHANGED <<other_images, unstaged_images, generated_images, nextId>>
    /\ UNCHANGED <<query, idOnly, shown, hasMore, touched, upVars, twiceVars, normVars, workVars>>
    /\ UNCHANGED <<pubVars, delVars>>
searchProperties_again ==
    /\ searchPc # "idle"
    /\ ~repeated
    /\ LET r == searchProperties(query, idOnly)
       IN  /\ searchPc' = IF r.outcome = "error" THEN "error" ELSE "done"
           /\ searchResult' = r.rows
           /\ searchReads' = r.reads
    /\ repeated' = TRUE
    /\ UNCHANGED <<query, idOnly, shown, hasMore, touched, upVars, twiceVars, normVars, workVars>>
    /\ UNCHANGED <<storeVars, pubVars, delVars>>

\* The rows of the stores a search is repeated against.
AgainRows ==
    {r \in SearchRows : r.id \in {7, 17} /\ r.display_name = NULL}

InitSearchAgain ==
    /\ property \in SeqsUpTo(AgainRows, MaxRows)
    /\ DistinctIds(property)
    /\ other_images = {}
    /\ unstaged_images = {}
    /\ generated_images = {}
    /\ nextId = NextIdAfter(property)
    /\ PublishIdle /\ DeleteIdle /\ SearchIdle /\ RestIdle

NextSearchAgain == search \/ updatePropertyNotes \/ searchProperties_again

SpecSearchAgain == InitSearchAgain /\ [][NextSearchAgain]_vars

----------------------------------------------------------------------------
(* The upload pipeline (ImageUploader.tsx, uploadImageToS3) *)

MaxUploads == 2      \* most uploads started on one mounted uploader

\* file.type.startsWith('image/')
ImagePrefix == <<"i", "m", "a", "g", "e", "/">>

StartsWith(s, prefix) ==
    /\ Len(s) >= Len(prefix)
    /\ SubSeq(s, 1, Len(prefix)) = prefix

IsImageType(type) == StartsWith(type, ImagePrefix)

\* The types of the files an operator drops, selects or pastes.
FileTypes ==
    {ImagePrefix \o <<"p", "n", "g">>,
     <<"i", "m", "a", "g", "e">>,
     <<"t", "e", "x", "t", "/", "p", "l", "a", "i", "n">>,
     <<>>}

\* The type of the files processImage (line 158) and applyWatermark
\* (line 101) build.
JpegType == ImagePrefix \o <<"j", "p", "e", "g">>

\* [a-z0-9] over the characters of the model's addresses.
IsSlugChar(c) == c \in Digits \cup {"m", "s"}

\* .replace(/[^a-z0-9]+/g, '-'): every maximal run of other characters
\* becomes one dash.
RECURSIVE SkipOthers(_)
SkipOthers(s) ==
    IF s # <<>> /\ ~IsSlugChar(Head(s)) THEN SkipOthers(Tail(s)) ELSE s

RECURSIVE ReplaceRuns(_)
ReplaceRuns(s) ==
    IF s = <<>> THEN <<>>
    ELSE IF IsSlugChar(Head(s)) THEN <<Head(s)>> \o ReplaceRuns(Tail(s))
    ELSE <<"-">> \o ReplaceRuns(SkipOthers(Tail(s)))

\* .replace(/(^-|-$)/g, ''): a dash at the start and a dash at the end go.
StripDashes(s) ==
    LET t == IF s # <<>> /\ Head(s) = "-" THEN Tail(s) ELSE s
    IN  IF t # <<>> /\ t[Len(t)] = "-" THEN SubSeq(t, 1, Len(t) - 1) ELSE t

\* Lines 26-32.
slugifyAddress(address) ==
    IF address = NULL \/ address = <<>>
    THEN <<"p", "r", "o", "p", "e", "r", "t", "y">>
    ELSE StripDashes(ReplaceRuns(ToLower(address)))

\* randomBytes(6).toString('hex'), line 138.
RandomStrings == {<<"0", "a">>, <<"1", "f">>}

\* Line 139: `${streetAddress}-${randomString}.jpg`
FileName(streetAddress, randomString) ==
    streetAddress \o <<"-">> \o randomString \o <<".", "j", "p", "g">>

\* The street addresses of the properties an uploader is mounted for.
UploadAddresses ==
    {NULL, <<"7", " ", "M", "s">>, <<"!", "7", " ", "!">>, <<"!", "!">>}

\* The messages of the errors the storage client and the store raise.
PutErrors == {"Access Denied", ""}
CreateError == "Foreign key constraint failed"

Event(stage, ev) == [stage |-> stage, ev |-> ev]

Schedule(target) == [timers EXCEPT ![target] = @ + 1]

\* propertyId.toString(), line 185.
RECURSIVE NumberToString(_)
NumberToString(n) ==
    LET digit == CHOOSE c \in Digits : DigitValue(c) = n % 10
    IN  IF n < 10 THEN <<digit>> ELSE NumberToString(n \div 10) \o <<digit>>

\* The reports of imageCompression's onProgress (lines 144-146), rounded.
ProgressReports == {50, 100}

GenericMessage == "An error occurred while uploading"

\* Lines 203-212: the catch and the finally of handleFileUpload, reached
\* when processImage or applyWatermark rejects.
CatchUploadError_Continues(stage) ==
    /\ upPc' = "reader"
    /\ upFailedAt' = stage
    /\ upEvents' = Append(upEvents, Event(stage, "fail"))
    /\ UNCHANGED <<errorMessage, timers, isUploading, compressionProgress,
                   watermarkProgress, surfaced>>
    /\ UNCHANGED <<storeVars, upFile, upPropertyId, upStreet, formData, upKey,
                   upResult, uploadSuccess, s3, upRuns, upBefore>>
    /\ UNCHANGED <<pubVars, delVars, searchVars, againVars, twiceVars, normVars, workVars>>
CatchUploadError(stage) ==
    /\ errorMessage' = GenericMessage
    /\ timers' = Schedule("errorMessage")
    /\ isUploading' = FALSE
    /\ compressionProgress' = 0
    /\ watermarkProgress' = 0
    /\ upPc' = "done"
    /\ upFailedAt' = stage
    /\ upEvents' = Append(upEvents, Event(stage, "fail"))
    /\ surfaced' = surfaced \cup {[stage |-> stage, msg |-> GenericMessage]}
    /\ UNCHANGED <<storeVars, upFile, upPropertyId, upStreet, formData, upKey,
                   upResult, uploadSuccess, s3, upRuns, upBefore>>
    /\ UNCHANGED <<pubVars, delVars, searchVars, againVars, twiceVars, normVars, workVars>>

\* A step of the pipeline that changes the listed client state only.
UploadFrame ==
    /\ UNCHANGED <<storeVars, upPropertyId, upStreet, upKey, upResult, s3,
                   upRuns, upBefore, upFailedAt, surfaced, timers,
                   errorMessage, uploadSuccess, isUploading>>
    /\ UNCHANGED <<pubVars, delVars, searchVars, againVars, twiceVars, normVars, workVars>>

\* Lines 166-181: the type check, the three state resets and the call of
\* processImage up to its await (lines 135-150).
handleFileUpload ==
    /\ upPc \in {"idle", "done"}
    /\ upRuns < MaxUploads
    /\ upRuns' = upRuns + 1
    /\ upBefore' = Tables
    /\ upResult' = NoUpload
    /\ formData' = NoFormData
    /\ upKey' = <<>>
    /\ \E type \in FileTypes :
        /\ upFile' = type
        /\ IF ~IsImageType(type)
           THEN /\ errorMessage' = "Please upload an image file"
                /\ timers' = Schedule("errorMessage")
                /\ upPc' = "done"
                /\ upFailedAt' = "validate"
                /\ upEvents' = <<Event("validate", "start"), Event("validate", "fail")>>
                /\ surfaced' = surfaced \cup
                      {[stage |-> "validate", msg |-> "Please upload an image file"]}
                /\ UNCHANGED <<isUploading, uploadSuccess, compressionProgress>>
           ELSE /\ isUploading' = TRUE
                /\ errorMessage' = NoMessage
                /\ uploadSuccess' = FALSE
                /\ compressionProgress' = 0
                /\ upPc' = "compress"
                /\ upFailedAt' = "none"
                /\ upEvents' = <<Event("validate", "start"), Event("validate", "end"),
                                 Event("compress", "start")>>
                /\ UNCHANGED <<timers, surfaced>>
    /\ UNCHANGED <<storeVars, upPropertyId, upStreet, watermarkProgress, s3>>
    /\ UNCHANGED <<pubVars, delVars, searchVars, againVars, twiceVars, normVars, workVars>>

\* Lines 144-146: onProgress.
processImage_onProgress ==
    /\ upPc = "compress"
    /\ \E progress \in ProgressReports : compressionProgress' = progress
    /\ UNCHANGED <<upPc, upFile, formData, upEvents, watermarkProgress>>
    /\ UploadFrame

\* Lines 150-159 and 184, 36-59: imageCompression resolves, processImage
\* returns the jpeg file and applyWatermark starts loading the watermark.
processImage_resolve ==
    /\ upPc = "compress"
    /\ upFile' = JpegType
    /\ watermarkProgress' = 10
    /\ upPc' = "watermarkImage"
    /\ upEvents' = upEvents \o <<Event("compress", "end"), Event("watermark", "start")>>
    /\ UNCHANGED <<formData, compressionProgress>>
    /\ UploadFrame

\* Lines 160-163: imageCompression rejects.
processImage_reject ==
    /\ upPc = "compress"
    /\ CatchUploadError("compress")

\* Lines 45-46: watermarkImage.onload.
watermarkImage_onload ==
    /\ upPc = "watermarkImage"
    /\ watermarkProgress' = 40
    /\ upPc' = "reader"
    /\ UNCHANGED <<upFile, formData, upEvents, compressionProgress>>
    /\ UploadFrame

\* Lines 121-123: watermarkImage.onerror.
watermarkImage_onerror ==
    /\ upPc = "watermarkImage"
    /\ CatchUploadError("watermark")

\* Lines 50-54: reader.onload, with or without a result.
reader_onload ==
    /\ upPc = "reader"
    /\ \E hasResult \in BOOLEAN :
        IF hasResult
        THEN /\ upPc' = "sourceImage"
             /\ UNCHANGED <<upFile, formData, upEvents, compressionProgress,
                            watermarkProgress>>
             /\ UploadFrame
        ELSE CatchUploadError("watermark")

\* The reader fails: no handler is registered (lines 49-114), so the
\* promise of applyWatermark stays pending.
reader_onerror ==
    /\ upPc = "reader"
    /\ upPc' = "readerError"
    /\ UNCHANGED <<upFile, formData, upEvents, compressionProgress,
                   watermarkProgress>>
    /\ UploadFrame

\* Lines 57-86: sourceImage.onload, with or without a canvas context.
sourceImage_onload ==
    /\ upPc = "sourceImage"
    /\ \E hasContext \in BOOLEAN :
        IF hasContext
        THEN /\ watermarkProgress' = 90
             /\ upPc' = "toBlob"
             /\ UNCHANGED <<upFile, formData, upEvents, compressionProgress>>
             /\ UploadFrame
        ELSE CatchUploadError("watermark")

\* The source image fails to decode: no handler is registered either.
sourceImage_onerror ==
    /\ upPc = "sourceImage"
    /\ upPc' = "sourceImageError"
    /\ UNCHANGED <<upFile, formData, upEvents, compressionProgress,
                   watermarkProgress>>
    /\ UploadFrame

\* Lines 89-108 and 186-192: the callback of canvas.toBlob; with a blob
\* applyWatermark resolves and handleFileUpload builds the form data and
\* calls uploadImageToS3.
toBlob_callback ==
    /\ upPc = "toBlob"
    /\ \E hasBlob \in BOOLEAN :
        IF hasBlob
        THEN /\ watermarkProgress' = 100
             /\ upFile' = JpegType
             /\ formData' = [file |-> JpegType,
                             propertyId |-> NumberToString(upPropertyId),
                             streetAddress |-> slugifyAddress(upStreet)]
             /\ upPc' = "put"
             /\ upEvents' = upEvents \o
                   <<Event("watermark", "end"), Event("name", "start")>>
             /\ UNCHANGED compressionProgress
             /\ UploadFrame
        ELSE CatchUploadError("watermark")

\* The result uploadImageToS3 returns from its catch (lines 177-183) or
\* from a check (lines 122-135).
Failure(message) == [success |-> FALSE, error |-> message]

\* Lines 116-163: the checks, the file name and the put to the bucket.
uploadImageToS3_put_RowFirst ==
    /\ upPc = "put"
    /\ \E randomString \in RandomStrings : \E message \in PutErrors :
        /\ upKey' = FileName(formData.streetAddress, randomString)
        /\ generated_images' = generated_images \cup
              {[id |-> nextId.generated_images,
                property_id |-> ParseInt(formData.propertyId),
                image_url |-> upKey']}
        /\ upResult' = Failure(message)
        /\ upFailedAt' = "upload"
        /\ upPc' = "result"
        /\ upEvents' = upEvents \o <<Event("name", "end"),
              Event("upload", "start"), Event("upload", "fail")>>
    /\ UNCHANGED <<property, other_images, unstaged_images, nextId, s3>>
    /\ UNCHANGED <<upFile, upPropertyId, upStreet, formData, isUploading,
                   uploadSuccess, errorMessage, compressionProgress,
                   watermarkProgress, timers, upRuns, upBefore, surfaced>>
    /\ UNCHANGED <<pubVars, delVars, searchVars, againVars, twiceVars, normVars, workVars>>
uploadImageToS3_put ==
    /\ upPc = "put"
    /\ LET file == formData.file
           propertyId == ParseInt(formData.propertyId)
           streetAddress == formData.streetAddress
       IN  IF file = NULL \/ propertyId = 0
           THEN /\ upResult' = Failure("Missing required data")
                /\ upFailedAt' = "name"
                /\ upPc' = "result"
                /\ upEvents' = Append(upEvents, Event("name", "fail"))
                /\ UNCHANGED <<upKey, s3>>
           ELSE IF ~IsImageType(file)
           THEN /\ upResult' = Failure("File must be an image")
                /\ upFailedAt' = "name"
                /\ upPc' = "result"
                /\ upEvents' = Append(upEvents, Event("name", "fail"))
                /\ UNCHANGED <<upKey, s3>>
           ELSE \E randomString \in RandomStrings :
                /\ upKey' = FileName(streetAddress, randomString)
                /\ \/ /\ s3' = s3 \cup {upKey'}
                      /\ upPc' = "create"
                      /\ upEvents' = upEvents \o
                            <<Event("name", "end"), Event("upload", "start")>>
                      /\ UNCHANGED <<upResult, upFailedAt>>
                   \/ \E message \in PutErrors :
                      /\ upResult' = Failure(message)
                      /\ upFailedAt' = "upload"
                      /\ upPc' = "result"
                      /\ upEvents' = upEvents \o <<Event("name", "end"),
                            Event("upload", "start"), Event("upload", "fail")>>
                      /\ UNCHANGED s3
    /\ UNCHANGED <<storeVars, upFile, upPropertyId, upStreet, formData,
                   isUploading, uploadSuccess, errorMessage,
                   compressionProgress, watermarkProgress, timers, upRuns,
                   upBefore, surfaced>>
    /\ UNCHANGED <<pubVars, delVars, searchVars, againVars, twiceVars, normVars, workVars>>

\* Lines 165-176: the generated image row; a write the store rejects goes
\* to the catch of lines 177-183.
uploadImageToS3_create_OtherKey ==
    /\ upPc = "create"
    /\ generated_images' = generated_images \cup
          {[id |-> nextId.generated_images,
            property_id |-> ParseInt(formData.propertyId),
            image_url |-> formData.streetAddress]}
    /\ nextId' = [nextId EXCEPT !.generated_images = @ + 1]
    /\ upResult' = [success |-> TRUE, error |-> NoMessage]
    /\ upEvents' = Append(upEvents, Event("upload", "end"))
    /\ upPc' = "result"
    /\ UNCHANGED <<property, other_images, unstaged_images, upFailedAt>>
    /\ UNCHANGED <<upFile, upPropertyId, upStreet, formData, upKey, isUploading,
                   uploadSuccess, errorMessage, compressionProgress,
                   watermarkProgress, timers, s3, upRuns, upBefore, surfaced>>
    /\ UNCHANGED <<pubVars, delVars, searchVars, againVars, twiceVars, normVars, workVars>>
uploadImageToS3_create ==
    /\ upPc = "create"
    /\ \/ /\ ForeignKeyHolds(ParseInt(formData.propertyId))
          /\ generated_images' = generated_images \cup
                {[id |-> nextId.generated_images,
                  property_id |-> ParseInt(formData.propertyId),
                  image_url |-> upKey]}
          /\ nextId' = [nextId EXCEPT !.generated_images = @ + 1]
          /\ upResult' = [success |-> TRUE, error |-> NoMessage]
          /\ upEvents' = Append(upEvents, Event("upload", "end"))
          /\ UNCHANGED upFailedAt
       \/ /\ upResult' = Failure(CreateError)
          /\ upFailedAt' = "upload"
          /\ upEvents' = Append(upEvents, Event("upload", "fail"))
          /\ UNCHANGED <<generated_images, nextId>>
    /\ upPc' = "result"
    /\ UNCHANGED <<property, other_images, unstaged_images>>
    /\ UNCHANGED <<upFile, upPropertyId, upStreet, formData, upKey, isUploading,
                   uploadSuccess, errorMessage, compressionProgress,
                   watermarkProgress, timers, s3, upRuns, upBefore, surfaced>>
    /\ UNCHANGED <<pubVars, delVars, searchVars, againVars, twiceVars, normVars, workVars>>

\* result.error || 'Upload failed', line 201.
ShownError(error) == IF error = "" THEN "Upload failed" ELSE error

\* Lines 192-212: the result of uploadImageToS3 arrives; the finally block.
handleFileUpload_result ==
    /\ upPc = "result"
    /\ IF upResult.success
       THEN /\ uploadSuccess' = TRUE
            /\ timers' = Schedule("uploadSuccess")
            /\ UNCHANGED <<errorMessage, surfaced>>
       ELSE /\ errorMessage' = ShownError(upResult.error)
            /\ timers' = Schedule("errorMessage")
            /\ surfaced' = surfaced \cup
                  {[stage |-> upFailedAt, msg |-> ShownError(upResult.error)]}
            /\ UNCHANGED uploadSuccess
    /\ isUploading' = FALSE
    /\ compressionProgress' = 0
    /\ watermarkProgress' = 0
    /\ upPc' = "done"
    /\ UNCHANGED <<storeVars, upFile, upPropertyId, upStreet, formData, upKey,
                   upResult, s3, upRuns, upEvents, upFailedAt, upBefore>>
    /\ UNCHANGED <<pubVars, delVars, searchVars, againVars, twiceVars, normVars, workVars>>

\* The callbacks of setTimeout(..., 3000), lines 170, 196, 202 and 207.
TimerFrame ==
    /\ UNCHANGED <<storeVars, upPc, upFile, upPropertyId, upStreet, formData,
                   upKey, upResult, isUploading, compressionProgress,
                   watermarkProgress, s3, upRuns, upEvents, upFailedAt,
                   upBefore, surfaced>>
    /\ UNCHANGED <<pubVars, delVars, searchVars, againVars, twiceVars, normVars, workVars>>

timeout_errorMessage ==
    /\ timers.errorMessage > 0
    /\ errorMessage' = NoMessage
    /\ timers' = [timers EXCEPT !.errorMessage = @ - 1]
    /\ UNCHANGED uploadSuccess
    /\ TimerFrame

timeout_uploadSuccess ==
    /\ timers.uploadSuccess > 0
    /\ uploadSuccess' = FALSE
    /\ timers' = [timers EXCEPT !.uploadSuccess = @ - 1]
    /\ UNCHANGED errorMessage
    /\ TimerFrame

\* An uploader mounted for the one property of the store (lines 445-449
\* of PropertyWorkbenchClient.tsx), which may own a generated image.
InitUpload ==
    /\ \E address \in UploadAddresses :
        /\ property = <<PropertyRow(7, [street_address |-> address,
                           listing_status |-> NULL,
                           display_name |-> NULL, phone_number |-> NULL])>>
        /\ upStreet = address
    /\ upPropertyId = 7
    /\ other_images = {}
    /\ unstaged_images = {}
    /\ \E owned \in 0..MaxOwned :
        /\ generated_images = ImageRows(1, 7, [i \in 1..owned |->
              FileName(slugifyAddress(upStreet), <<"0", "a">>)])
        /\ s3 = {r.image_url : r \in generated_images}
        /\ nextId = [NextIdAfter(property) EXCEPT !.generated_images = owned + 1]
    /\ PublishIdle /\ DeleteIdle /\ SearchIdle /\ TwiceIdle /\ NormalizeIdle
    /\ WorkIdle
    /\ upPc = "idle"
    /\ upFile = <<>>
    /\ formData = NoFormData
    /\ upKey = <<>>
    /\ upResult = NoUpload
    /\ isUploading = FALSE
    /\ uploadSuccess = FALSE
    /\ errorMessage = NoMessage
    /\ compressionProgress = 0
    /\ watermarkProgress = 0
    /\ timers = NoTimers
    /\ upRuns = 0
    /\ upEvents = <<>>
    /\ upFailedAt = "none"
    /\ upBefore = EmptyTables
    /\ surfaced = {}

NextUpload ==
    \/ handleFileUpload
    \/ processImage_onProgress
    \/ processImage_resolve
    \/ processImage_reject
    \/ watermarkImage_onload
    \/ watermarkImage_onerror
    \/ reader_onload
    \/ reader_onerror
    \/ sourceImage_onload
    \/ sourceImage_onerror
    \/ toBlob_callback
    \/ uploadImageToS3_put
    \/ uploadImageToS3_create
    \/ handleFileUpload_result
    \/ timeout_errorMessage
    \/ timeout_uploadSuccess

SpecUpload == InitUpload /\ [][NextUpload]_vars

----------------------------------------------------------------------------
(* Properties of the upload pipeline *)

Stages == <<"validate", "compress", "watermark", "name", "upload">>

\* The events of an invocation whose stages ran one after the other in the
\* order of Stages: the start of a stage, then its end or its failure, and
\* nothing after a failure.
InStageOrder(events) ==
    \A i \in 1..Len(events) :
        /\ events[i].stage = Stages[(i + 1) \div 2]
        /\ events[i].ev = IF i % 2 = 1 THEN "start"
                          ELSE IF i < Len(events) THEN "end"
                          ELSE events[i].ev
        /\ events[i].ev \in {"start", "end", "fail"}

UploadFailed == upFailedAt # "none"

\* C15: the stages of an upload invocation run in the order validate,
\* compress, watermark, name, upload, each starting after the previous one
\* ended; after the failure of a stage no stage runs, and a file that is not
\* an image gets no further than the failed validation.
C15_StagesInOrder ==
    /\ Len(upEvents) <= 2 * Len(Stages)
    /\ InStageOrder(upEvents)
    /\ (upRuns > 0 /\ ~StartsWith(upFile, ImagePrefix))
        => upEvents = <<Event("validate", "start"), Event("validate", "fail")>>

C15_Witness ==
    /\ upPc = "done"
    /\ upFailedAt = "watermark"
    /\ upEvents = <<Event("validate", "start"), Event("validate", "end"),
                    Event("compress", "start"), Event("compress", "end"),
                    Event("watermark", "start"), Event("watermark", "fail")>>

\* C16: when the put to the bucket fails, uploadImageToS3 writes no
\* generated image row and returns success = false with the error; and an
\* invocation that failed at any stage leaves the generated images as they
\* were when it started.
C16_FailureLeavesNoRow ==
    UploadFailed =>
        /\ generated_images = upBefore.generated_images
        /\ (upFailedAt = "upload" /\ upPc \in {"result", "done"})
            => (~upResult.success /\ upResult.error \in PutErrors \cup {CreateError})

C16_Witness ==
    /\ upPc = "result"
    /\ upFailedAt = "upload"
    /\ upKey \notin s3
    /\ upResult = Failure("Access Denied")
    /\ generated_images # {}

\* C17: a successful uploadImageToS3 adds one generated image row, owned by
\* the property of the uploader, whose image_url is the key of the object
\* just put to the bucket; every other row of the store is as before.
C17_OneRowSameKey ==
    (upPc \in {"result", "done"} /\ upResult.success) =>
        /\ \E r \in generated_images :
            /\ r \notin upBefore.generated_images
            /\ generated_images = upBefore.generated_images \cup {r}
            /\ \A q \in upBefore.generated_images : q.id # r.id
            /\ r.property_id = upPropertyId
            /\ r.image_url = upKey
            /\ upKey \in s3
        /\ property = upBefore.property
        /\ other_images = upBefore.other_images
        /\ unstaged_images = upBefore.unstaged_images

C17_Witness ==
    /\ upPc = "result"
    /\ upResult.success
    /\ upRuns = 2
    /\ Cardinality(generated_images) = 3
    /\ \E r \in generated_images : r.image_url = upKey /\ r.id = 3

\* C18: the message shown for a failure tells the failed stage: failures
\* of different stages are never shown with the same message.
C18_StageSpecificMessages ==
    \A p, q \in surfaced : p.stage # q.stage => p.msg # q.msg

----------------------------------------------------------------------------
(* Repeated runs of publishToDatabase (json-uploader/page.tsx) *)

MaxRuns == 2         \* most runs submitted with one loaded document
MaxRepeated == 2     \* longest searchResults list of such a document

\* The items of the documents that are published more than once.
RepeatedItems ==
    {item \in PublishItems :
        /\ item.unstaged \in {Absent, Array(Urls(MaxUrls))}
        /\ item.highRes = IF item.unstaged = Absent
                          THEN Absent ELSE Array(Urls(1))}

\* page.tsx lines 114-119 and actions.ts lines 15-28: the Publish button
\* calls publishToDatabase with the loaded document, whatever was
\* published before.
handlePublish_Once ==
    /\ pubPc \in {"idle", "done"}
    /\ pubRuns < MaxRuns
    /\ pubRuns' = pubRuns + 1
    /\ pubFirst' = IF pubRuns = 1
                   THEN [result |-> pubResult, rows |-> Len(property)]
                   ELSE pubFirst
    /\ IF pubRuns >= 1 THEN pubPc' = "done"
       ELSE IF ParseThrows(payload) \/ ~StructureOk(payload)
       THEN pubPc' = "done"
       ELSE pubPc' = "loop"
    /\ pubResult' = IF pubRuns >= 1 THEN pubResult
                    ELSE IF ParseThrows(payload)
                    THEN [success |-> FALSE, published |-> 0, skipped |-> 0,
                          error |-> "exception"]
                    ELSE IF ~StructureOk(payload)
                    THEN [success |-> FALSE, published |-> 0, skipped |-> 0,
                          error |-> "Invalid JSON structure"]
                    ELSE NoResult
    /\ published' = 0
    /\ skipped' = 0
    /\ pubIdx' = 1
    /\ pubLog' = <<>>
    /\ UNCHANGED <<payload, pubProperty, pubWrites, pubFailed>>
    /\ UNCHANGED <<storeVars, delVars, searchVars, againVars, upVars, normVars, workVars>>
handlePublish ==
    /\ pubPc \in {"idle", "done"}
    /\ pubRuns < MaxRuns
    /\ pubRuns' = pubRuns + 1
    /\ pubFirst' = IF pubRuns = 1
                   THEN [result |-> pubResult, rows |-> Len(property)]
                   ELSE pubFirst
    /\ IF ParseThrows(payload)
       THEN /\ pubResult' = [success |-> FALSE, published |-> 0,
                             skipped |-> 0, error |-> "exception"]
            /\ pubPc' = "done"
       ELSE IF ~StructureOk(payload)
       THEN /\ pubResult' = [success |-> FALSE, published |-> 0,
                             skipped |-> 0, error |-> "Invalid JSON structure"]
            /\ pubPc' = "done"
       ELSE /\ pubResult' = NoResult
            /\ pubPc' = "loop"
    /\ published' = 0
    /\ skipped' = 0
    /\ pubIdx' = 1
    /\ pubLog' = <<>>
    /\ UNCHANGED <<payload, pubProperty, pubWrites, pubFailed>>
    /\ UNCHANGED <<storeVars, delVars, searchVars, againVars, upVars, normVars, workVars>>

\* A document is loaded into the page and the store is empty.
InitPublishTwice ==
    /\ StoreEmpty
    /\ payload \in
         [json : {"object"}, searchResults : {Scalar}]
         \cup [json : {"object"},
               searchResults : {Array(s) : s \in SeqsUpTo(RepeatedItems, MaxRepeated)}]
    /\ pubPc = "idle"
    /\ pubIdx = 1
    /\ published = 0
    /\ skipped = 0
    /\ pubProperty = NoProperty
    /\ pubResult = NoResult
    /\ pubLog = <<>>
    /\ pubWrites = 0
    /\ pubFailed = 0
    /\ DeleteIdle /\ SearchIdle /\ RestIdle

NextPublishTwice ==
    \/ handlePublish
    \/ publishToDatabase_item
    \/ publishToDatabase_otherImages
    \/ publishToDatabase_unstagedImages
    \/ publishToDatabase_return

SpecPublishTwice == InitPublishTwice /\ [][NextPublishTwice]_vars

\* The image urls of the acceptable items of the payload.
NumUnstagedUrls ==
    Sum([i \in 1..Len(Items) |->
            IF LacksUnstaged(Items[i]) THEN 0 ELSE Len(Items[i].unstaged.elems)],
        Len(Items))

\* C19: publishing the same payload twice, every write persisting, leaves
\* two property rows and two sets of image rows for each acceptable item,
\* and each of the two runs reports published = the number of acceptable
\* items.
C19_RepublishDuplicates ==
    (pubRuns = 2 /\ pubPc = "done" /\ PayloadIsList /\ pubFailed = 0)
    => (/\ pubFirst.result.published = NumAcceptable
        /\ pubFirst.rows = NumAcceptable
        /\ pubResult.published = NumAcceptable
        /\ Len(property) = 2 * NumAcceptable
        /\ Cardinality(unstaged_images) = 2 * NumUnstagedUrls)

C19_Witness ==
    /\ pubRuns = 2
    /\ pubPc = "done"
    /\ PayloadIsList
    /\ pubFailed = 0
    /\ NumItems = 2
    /\ NumAcceptable = 2
    /\ Len(property) = 4
    /\ Cardinality(other_images) = 4
    /\ pubResult.published = 2
    /\ pubFirst.result.published = 2

----------------------------------------------------------------------------
(* The numeric columns of an item (json-uploader/actions.ts) *)

Number(at, n) == [at |-> at, kind |-> "number", num |-> n, str |-> <<>>]
String(at, s) == [at |-> at, kind |-> "string", num |-> 0, str |-> s]
Missing(at) == [at |-> at, kind |-> "absent", num |-> 0, str |-> <<>>]

NumberColumn(n) == [kind |-> "number", num |-> n, str |-> <<>>]
StringColumn(s) == [kind |-> "string", num |-> 0, str |-> s]

SourceNumbers == {0, 7, 17}
SourceStrings == {<<>>, <<"7">>, <<"1", "7">>, <<"7", " ", "m">>}

\* The values of a key: missing, a number or a string.
Sources(at) ==
    {Missing(at)} \cup {Number(at, n) : n \in SourceNumbers}
                  \cup {String(at, s) : s \in SourceStrings}

\* property.price is missing, a number, a string, or an object whose
\* member value is one of these; property.daysOnZillow is not an object.
PriceSources == Sources("bare") \cup Sources("value")
DaysSources == Sources("bare")

\* Line 55: searchResult?.property?.price?.value || null
Price(price) ==
    IF price.at = "bare" THEN NullColumn
    ELSE IF price.kind = "number" /\ price.num # 0 THEN NumberColumn(price.num)
    ELSE IF price.kind = "string" /\ price.str # <<>> THEN StringColumn(price.str)
    ELSE NullColumn

\* Lines 74-77: typeof daysOnZillow === 'number' ? daysOnZillow : null
DaysOnZillow(daysOnZillow) ==
    IF daysOnZillow.at = "bare" /\ daysOnZillow.kind = "number"
    THEN NumberColumn(daysOnZillow.num)
    ELSE NullColumn

\* Schema lines 117 and 124: price Float?, days_on_zillow Int?.
ColumnAccepts(value) == value.kind \in {"null", "number"}

\* Lines 45-78: const propertyData, as far as the two columns go.
publishToDatabase_propertyData ==
    /\ normPc = "idle"
    /\ normData' = [price |-> Price(normItem.price),
                    days_on_zillow |-> DaysOnZillow(normItem.daysOnZillow)]
    /\ normPc' = "data"
    /\ UNCHANGED <<normItem, normRow>>
    /\ UNCHANGED <<storeVars, pubVars, delVars, searchVars, againVars, upVars,
                   twiceVars, workVars>>

\* Lines 81-83 and 110-113: property.create stores the two columns, or
\* rejects a value of another type and the item is skipped.
publishToDatabase_create ==
    /\ normPc = "data"
    /\ IF ColumnAccepts(normData.price) /\ ColumnAccepts(normData.days_on_zillow)
       THEN normRow' = normData /\ normPc' = "created"
       ELSE normRow' = normRow /\ normPc' = "skipped"
    /\ UNCHANGED <<normItem, normData>>
    /\ UNCHANGED <<storeVars, pubVars, delVars, searchVars, againVars, upVars,
                   twiceVars, workVars>>

InitNormalize ==
    /\ StoreEmpty
    /\ PublishIdle /\ DeleteIdle /\ SearchIdle /\ UploadIdle /\ TwiceIdle /\ WorkIdle
    /\ normItem \in [price : PriceSources, daysOnZillow : DaysSources]
    /\ normPc = "idle"
    /\ normData = [price |-> NullColumn, days_on_zillow |-> NullColumn]
    /\ normRow = [price |-> NullColumn, days_on_zillow |-> NullColumn]

NextNormalize == publishToDatabase_propertyData \/ publishToDatabase_create

SpecNormalize == InitNormalize /\ [][NextNormalize]_vars

\* The numeric value of a source: the number itself, the number a string
\* of digits denotes, and no value otherwise.
Coerced(source) ==
    IF source.kind = "number" THEN NumberColumn(source.num)
    ELSE IF source.kind = "string" /\ IsNumeric(source.str)
    THEN NumberColumn(ParseInt(source.str))
    ELSE NullColumn

\* C20: the row of an accepted item holds in price and days_on_zillow the
\* numeric value of the source when the source is a number or a numeric
\* string, and null otherwise; a source without a numeric value is never
\* stored as zero.
C20_NumericCoercion ==
    (normPc = "created")
    => (/\ normRow.price = Coerced(normItem.price)
        /\ normRow.days_on_zillow = Coerced(normItem.daysOnZillow))

----------------------------------------------------------------------------
(* Items of every shape (json-uploader/actions.ts lines 45-78) *)

AddressObjects ==
    {NoAddress} \cup
    {[present |-> TRUE, streetAddress |-> s] : s \in {ABSENT, <<>>, <<"7", " ", "m">>}}

ListingObjects ==
    {NoListing} \cup
    {[present |-> TRUE, listingStatus |-> s] : s \in {ABSENT, <<"s">>}}

AgentInfoObjects ==
    {[depth |-> d, displayName |-> ABSENT, phoneNumber |-> ABSENT] : d \in 0..2}
    \cup {[depth |-> 3, displayName |-> n, phoneNumber |-> p] :
            n \in {ABSENT, <<"M">>}, p \in {ABSENT, <<"1", "7">>}}

LegacyAgents ==
    {NoLegacyAgent,
     [present |-> TRUE, displayName |-> <<"M">>, phoneNumber |-> <<"1", "7">>]}

\* Items in the current shape, in the older shape, in both and in neither.
ShapedItems ==
    [unstaged : {Absent, Array(Urls(1))},
     highRes : {Absent},
     address : AddressObjects,
     listing : ListingObjects,
     agent : AgentInfoObjects,
     listingStatus : {ABSENT, <<"s">>},
     legacyAgent : LegacyAgents]

\* A document of one item is loaded into the page and the store is empty.
InitPublishShapes ==
    /\ StoreEmpty
    /\ payload \in [json : {"object"},
                    searchResults : {Array(<<item>>) : item \in ShapedItems}]
    /\ pubPc = "idle"
    /\ pubIdx = 1
    /\ published = 0
    /\ skipped = 0
    /\ pubProperty = NoProperty
    /\ pubResult = NoResult
    /\ pubLog = <<>>
    /\ pubWrites = 0
    /\ pubFailed = 0
    /\ DeleteIdle /\ SearchIdle /\ RestIdle

SpecPublishShapes == InitPublishShapes /\ [][NextPublishTwice]_vars

\* What the claim stores for a key: null when it is missing, its value
\* when it holds a non-empty string.
IsMissing(value) == value = ABSENT
IsText(value) == value # ABSENT /\ value # <<>>

TheItem == Items[1]
TheRow == property[1]

FirstRunPublished ==
    /\ pubRuns = 1
    /\ pubPc = "done"
    /\ pubFailed = 0
    /\ ~LacksUnstaged(TheItem)

\* C21: an item with a non-empty unstaged-image list is published, a row
\* being created and published counted, whichever of its address, listing
\* and agent objects or keys are missing; a missing key is stored as null
\* and a key holding text as that text.
C21_OnlyUnstagedGates ==
    FirstRunPublished =>
        /\ pubResult.success
        /\ pubResult.published = 1
        /\ pubResult.skipped = 0
        /\ Len(property) = 1
        /\ LET streetAddress == IF TheItem.address.present
                                THEN TheItem.address.streetAddress ELSE ABSENT
               listingStatus == IF TheItem.listing.present
                                THEN TheItem.listing.listingStatus ELSE ABSENT
               displayName == IF TheItem.agent.depth = 3
                              THEN TheItem.agent.displayName ELSE ABSENT
               phoneNumber == IF TheItem.agent.depth = 3
                              THEN TheItem.agent.phoneNumber ELSE ABSENT
           IN  /\ IsMissing(streetAddress) => TheRow.street_address = NULL
               /\ IsText(streetAddress) => TheRow.street_address = streetAddress
               /\ IsMissing(listingStatus) => TheRow.listing_status = NULL
               /\ IsText(listingStatus) => TheRow.listing_status = listingStatus
               /\ IsMissing(displayName) => TheRow.display_name = NULL
               /\ IsText(displayName) => TheRow.display_name = displayName
               /\ IsMissing(phoneNumber) => TheRow.phone_number = NULL
               /\ IsText(phoneNumber) => TheRow.phone_number = phoneNumber

C21_Witness ==
    /\ FirstRunPublished
    /\ ~TheItem.address.present
    /\ TheItem.listing = [present |-> TRUE, listingStatus |-> <<"s">>]
    /\ TheItem.agent.depth = 2
    /\ pubResult.published = 1
    /\ TheRow.street_address = NULL
    /\ TheRow.listing_status = <<"s">>
    /\ TheRow.display_name = NULL

\* C22: an item in the older shape, with property.listingStatus and
\* property.agent and a non-empty unstaged-image list, is stored with the
\* listing status and the agent fields of that shape.
C22_LegacyShapeStored ==
    (/\ FirstRunPublished
     /\ ~TheItem.listing.present
     /\ TheItem.agent.depth = 0
     /\ TheItem.listingStatus # ABSENT
     /\ TheItem.legacyAgent.present)
    => (/\ Len(property) = 1
        /\ TheRow.listing_status = TheItem.listingStatus
        /\ TheRow.display_name = TheItem.legacyAgent.displayName
        /\ TheRow.phone_number = TheItem.legacyAgent.phoneNumber)

\* C23: the street address sent with the file is "property" when the
\* property has none, and otherwise consists of the lower-case letters and
\* digits of the address with single hyphens between them and none at the
\* ends; it is never empty, so every file name is a non-empty slug, a
\* hyphen, the random string and ".jpg".
C23_SlugAndFileName ==
    (formData # NoFormData) =>
        LET slug == formData.streetAddress
        IN  /\ upStreet = NULL => slug = <<"p", "r", "o", "p", "e", "r", "t", "y">>
            /\ upStreet # NULL =>
                /\ \A i \in 1..Len(slug) : IsSlugChar(slug[i]) \/ slug[i] = "-"
                /\ \A i \in 1..(Len(slug) - 1) : ~(slug[i] = "-" /\ slug[i + 1] = "-")
                /\ SelectSeq(slug, IsSlugChar) = SelectSeq(ToLower(upStreet), IsSlugChar)
            /\ slug # <<>>
            /\ slug[1] # "-" /\ slug[Len(slug)] # "-"
            /\ upKey # <<>> =>
                \E hex \in RandomStrings : upKey = FileName(slug, hex)

\* C24: when a run of publishToDatabase against the empty store is over,
\* the store holds as many property rows as the run reports published; an
\* item counted as skipped has left no property row.
C24_RowsEqualPublished ==
    (pubPc = "done" /\ pubRuns = 0 /\ pubResult.success)
    => Len(property) = pubResult.published

----------------------------------------------------------------------------
(* Ingestion, upload and deletion side by side *)

\* The events of an upload whose client stages are over.
ClientStagesDone ==
    <<Event("validate", "start"), Event("validate", "end"),
      Event("compress", "start"), Event("compress", "end"),
      Event("watermark", "start"), Event("watermark", "end"),
      Event("name", "start")>>

\* The store holds property 1 with MaxOwned images of each kind;
\* a document of one item is loaded into the json-uploader page, and the
\* uploader mounted for property 1 has called uploadImageToS3 (the state
\* toBlob_callback leaves); no delete has been asked for yet.
InitInterleaved ==
    /\ property = SeedProperty(1)
    /\ \E owned \in {MaxOwned} :
        /\ other_images = ImageRows(1, 1, Urls(owned))
        /\ unstaged_images = ImageRows(1, 1, Urls(owned))
        /\ generated_images = ImageRows(1, 1, [i \in 1..owned |->
              FileName(slugifyAddress(NULL), <<"0", "a">>)])
        /\ nextId = [property |-> 2, other_images |-> owned + 1,
                     unstaged_images |-> owned + 1,
                     generated_images |-> owned + 1]
    /\ s3 = {r.image_url : r \in generated_images}
    /\ payload = [json |-> "object",
                  searchResults |-> Array(<<
                      [unstaged |-> Array(Urls(1)), highRes |-> Array(Urls(1)),
                       address |-> NoAddress, listing |-> NoListing,
                       agent |-> NoAgentInfo, listingStatus |-> ABSENT,
                       legacyAgent |-> NoLegacyAgent]>>)]
    /\ pubPc = "idle"
    /\ pubIdx = 1
    /\ published = 0
    /\ skipped = 0
    /\ pubProperty = NoProperty
    /\ pubResult = NoResult
    /\ pubLog = <<>>
    /\ pubWrites = 0
    /\ pubFailed = 0
    /\ upPc = "put"
    /\ upFile = JpegType
    /\ upPropertyId = 1
    /\ upStreet = NULL
    /\ formData = [file |-> JpegType, propertyId |-> NumberToString(1),
                   streetAddress |-> slugifyAddress(NULL)]
    /\ upKey = <<>>
    /\ upResult = NoUpload
    /\ isUploading = TRUE
    /\ uploadSuccess = FALSE
    /\ errorMessage = NoMessage
    /\ compressionProgress = 0
    /\ watermarkProgress = 100
    /\ timers = NoTimers
    /\ upRuns = 1
    /\ upEvents = ClientStagesDone
    /\ upFailedAt = "none"
    /\ upBefore = Tables
    /\ surfaced = {}
    /\ DeleteIdle /\ SearchIdle /\ TwiceIdle /\ NormalizeIdle /\ WorkIdle

NextInterleaved ==
    \/ handlePublish
    \/ publishToDatabase_item
    \/ publishToDatabase_otherImages
    \/ publishToDatabase_unstagedImages
    \/ publishToDatabase_return
    \/ uploadImageToS3_put
    \/ uploadImageToS3_create
    \/ deleteProperty_begin
    \/ deleteProperty_otherImage
    \/ deleteProperty_generatedImage
    \/ deleteProperty_unstagedImage
    \/ deleteProperty_property
    \/ deleteProperty_commit

SpecInterleaved == InitInterleaved /\ [][NextInterleaved]_vars

\* C25: in every state, however the steps of ingestion, upload and
\* deletion interleave, each row of the three image tables references a
\* property row of the store.
C25_ImagesReferenceProperties ==
    /\ \A r \in other_images : r.property_id \in PropertyIds(Tables)
    /\ \A r \in unstaged_images : r.property_id \in PropertyIds(Tables)
    /\ \A r \in generated_images : r.property_id \in PropertyIds(Tables)

\* The delete of property 1 and the upload for it both succeeded, and the
\* ingestion run published its item in between.
C25_Witness ==
    /\ delPc = "done"
    /\ delResult = "success"
    /\ delId = 1
    /\ upPc = "result"
    /\ upResult.success
    /\ generated_images = {}
    /\ pubPc = "done"
    /\ pubResult.published = 1
    /\ PropertyIds(Tables) = {2}
    /\ unstaged_images # {}

----------------------------------------------------------------------------
(* Termination of an upload *)

\* What the runtime guarantees: a pending promise of the compression
\* library settles, an image or a file that is loading fires one of its
\* events, the canvas calls back, the server action runs to its return and
\* the awaiting handler resumes.  The operator's own actions and the
\* progress reports are not required to happen.
UploadFairness ==
    /\ WF_vars(processImage_resolve \/ processImage_reject)
    /\ WF_vars(watermarkImage_onload \/ watermarkImage_onerror)
    /\ WF_vars(reader_onload \/ reader_onerror)
    /\ WF_vars(sourceImage_onload \/ sourceImage_onerror)
    /\ WF_vars(toBlob_callback)
    /\ WF_vars(uploadImageToS3_put)
    /\ WF_vars(uploadImageToS3_create)
    /\ WF_vars(handleFileUpload_result)

SpecUploadFair == InitUpload /\ [][NextUpload]_vars /\ UploadFairness

\* The invocation is over: the finally block has run and a success or an
\* error is on display.
UploadEnded ==
    /\ upPc = "done"
    /\ ~isUploading
    /\ compressionProgress = 0
    /\ watermarkProgress = 0
    /\ uploadSuccess \/ errorMessage # NoMessage

\* C26: every upload that passed validation eventually ends, in success
\* or with an error on display, with isUploading false and both progress
\* counters 0, whichever stage fails.
C26_UploadEnds == isUploading ~> UploadEnded

\* C28: once a call of uploadImageToS3 has returned, every object in
\* storage has a generated-image row with its key: a call that returns
\* success = false left no object behind.
C28_ObjectOnlyWithRow ==
    upPc # "create" =>
        \A key \in s3 : \E row \in generated_images : row.image_url = key

----------------------------------------------------------------------------
(* toggleContactedAgent: property-workbench/actions.ts lines 83-111 *)

InFlight == {caller \in Callers : toggleCalls[caller].pc \in {"called", "read"}}

ToggleFrame ==
    /\ UNCHANGED <<other_images, unstaged_images, generated_images, nextId>>
    /\ UNCHANGED <<pubVars, delVars, searchVars, againVars, upVars, twiceVars,
                   normVars, clientVars, pipelines>>

\* Line 83: a caller invokes the server action.
toggleContactedAgent ==
    /\ toggleOk + Cardinality(InFlight) < MaxToggles
    /\ \E caller \in Callers : \E id \in 1..(Len(property) + 1) :
        /\ toggleCalls[caller].pc = "idle"
        /\ toggleCalls' = [toggleCalls EXCEPT ![caller] =
              [pc |-> "called", id |-> id, contacted_agent |-> FALSE]]
    /\ UNCHANGED <<property, toggleOk, toggleInitial>>
    /\ ToggleFrame

\* Lines 86-93: findUnique selects contacted_agent; a missing row or a
\* rejected read throws, and the catch of lines 107-110 rethrows.
toggleContactedAgent_findUnique ==
    /\ \E caller \in Callers :
        /\ toggleCalls[caller].pc = "called"
        /\ LET found == FindUnique(toggleCalls[caller].id)
           IN  \/ /\ found # <<>>
                  /\ toggleCalls' = [toggleCalls EXCEPT ![caller].pc = "read",
                        ![caller].contacted_agent = found[1].contacted_agent]
               \/ toggleCalls' = [toggleCalls EXCEPT ![caller].pc = "failed"]
    /\ UNCHANGED <<property, toggleOk, toggleInitial>>
    /\ ToggleFrame

\* Lines 96-105: update writes the negation of the flag read and the call
\* returns success; the update waits while a transaction holds a delete of
\* the row, and throws when the row is gone or the write is rejected.
toggleContactedAgent_update(caller) ==
    /\ property' = [i \in 1..Len(property) |->
          IF property[i].id = toggleCalls[caller].id
          THEN [property[i] EXCEPT
                   !.contacted_agent = ~toggleCalls[caller].contacted_agent,
                   !.updated_at = LatestUpdate(property) + 1]
          ELSE property[i]]
    /\ toggleCalls' = [toggleCalls EXCEPT ![caller].pc = "ok"]
    /\ toggleOk' = toggleOk + 1

toggleContactedAgent_write ==
    /\ \E caller \in Callers :
        /\ toggleCalls[caller].pc = "read"
        /\ toggleCalls[caller].id \notin tx.property
        /\ \/ /\ FindUnique(toggleCalls[caller].id) # <<>>
              /\ toggleContactedAgent_update(caller)
           \/ /\ toggleCalls' = [toggleCalls EXCEPT ![caller].pc = "failed"]
              /\ UNCHANGED <<property, toggleOk>>
    /\ UNCHANGED toggleInitial
    /\ ToggleFrame

\* The caller receives { success: true } or the error thrown.
toggleContactedAgent_return ==
    /\ \E caller \in Callers :
        /\ toggleCalls[caller].pc \in {"ok", "failed"}
        /\ toggleCalls' = [toggleCalls EXCEPT ![caller] = NoCall]
    /\ UNCHANGED <<property, toggleOk, toggleInitial>>
    /\ ToggleFrame

\* The store holds property 1, contacted or not; nobody has called yet.
InitToggle ==
    /\ \E flag \in BOOLEAN :
        /\ property = [p \in 1..1 |->
              [SeedProperty(1)[p] EXCEPT !.contacted_agent = flag]]
        /\ toggleInitial = flag
    /\ other_images = {}
    /\ unstaged_images = {}
    /\ generated_images = {}
    /\ nextId = [property |-> 2, other_images |-> 1, unstaged_images |-> 1,
                 generated_images |-> 1]
    /\ toggleCalls = [caller \in Callers |-> NoCall]
    /\ toggleOk = 0
    /\ PublishIdle /\ DeleteIdle /\ SearchIdle /\ UploadIdle /\ TwiceIdle
    /\ NormalizeIdle /\ ClientIdle /\ PipelinesIdle

NextToggle ==
    \/ toggleContactedAgent
    \/ toggleContactedAgent_findUnique
    \/ toggleContactedAgent_write
    \/ toggleContactedAgent_return

SpecToggle == InitToggle /\ [][NextToggle]_vars

\* C27: after n successful calls of toggleContactedAgent on a property,
\* however their reads and writes interleave, its flag is the initial one
\* when n is even and the negation when n is odd.
C27_FlagFollowsParity ==
    \A i \in 1..Len(property) :
        property[i].contacted_agent = (toggleInitial # (toggleOk % 2 = 1))

----------------------------------------------------------------------------
(* PropertyWorkbenchClient: the detail panel and the two lead lists *)

\* What the client keeps of a row, and the entry of a list made of it
\* (lines 136-141).
Selected(row) ==
    [id |-> row.id, street_address |-> row.street_address,
     contacted_agent |-> row.contacted_agent]
LeadOf(row) == [id |-> row.id, street_address |-> row.street_address]

\* list.filter((lead) => lead.id !== id)
FilterId(list, id) == SelectSeq(list, LAMBDA lead : lead.id # id)

\* getNewLeads and getRecentlyContactedProperties (actions.ts 31-78).
getLeads(flag) ==
    LET rows == SelectSeq(property, LAMBDA r : r.contacted_agent = flag)
    IN  [i \in 1..Len(rows) |-> LeadOf(rows[i])]

ListedIds(list) == {list[i].id : i \in 1..Len(list)}

ClientFrame ==
    /\ UNCHANGED <<pubVars, searchVars, againVars, upVars, twiceVars, normVars,
                   pipelines>>

\* Lines 68-70 and 591, 636: the operator clicks an entry of a list; the
\* spinner replaces the detail panel and getPropertyById is called.
fetchProperty ==
    /\ fetchCall.pc = "idle"
    /\ \E id \in ListedIds(newLeads) \cup ListedIds(recentlyContactedProperties) :
        fetchCall' = [pc |-> "called", id |-> id, property |-> NoSelection]
    /\ isLoading' = TRUE
    /\ UNCHANGED <<selectedProperty, isToggling, isDeleting, newLeads,
                   recentlyContactedProperties, toggleClosure, deleteClosure>>
    /\ UNCHANGED <<storeVars, delVars, toggleVars>>
    /\ ClientFrame

\* actions.ts 11-26: the row, null when there is none, or an error thrown.
getPropertyById ==
    /\ fetchCall.pc = "called"
    /\ LET found == FindUnique(fetchCall.id)
       IN  \/ fetchCall' = [fetchCall EXCEPT !.pc = "returned",
                 !.property = IF found = <<>> THEN NoSelection
                              ELSE Selected(found[1])]
           \/ fetchCall' = [fetchCall EXCEPT !.pc = "failed"]
    /\ UNCHANGED <<selectedProperty, isLoading, isToggling, isDeleting, newLeads,
                   recentlyContactedProperties, toggleClosure, deleteClosure>>
    /\ UNCHANGED <<storeVars, delVars, toggleVars>>
    /\ ClientFrame

\* Lines 71-78: the row fetched becomes the selection; the finally block.
fetchProperty_resume ==
    /\ fetchCall.pc \in {"returned", "failed"}
    /\ selectedProperty' = IF fetchCall.pc = "returned" THEN fetchCall.property
                           ELSE selectedProperty
    /\ isLoading' = FALSE
    /\ fetchCall' = NoFetch
    /\ UNCHANGED <<isToggling, isDeleting, newLeads, recentlyContactedProperties,
                   toggleClosure, deleteClosure>>
    /\ UNCHANGED <<storeVars, delVars, toggleVars>>
    /\ ClientFrame

\* Lines 122-127: the button of the detail panel, rendered when the panel
\* is not loading (line 220); the handler keeps the state of the render it
\* was created in and calls toggleContactedAgent.
handleToggleContact ==
    /\ ~isLoading
    /\ selectedProperty.id # 0
    /\ ~isToggling
    /\ toggleOk < MaxToggles
    /\ isToggling' = TRUE
    /\ toggleClosure' = [selectedProperty |-> selectedProperty,
                         newLeads |-> newLeads,
                         recentlyContactedProperties |-> recentlyContactedProperties]
    /\ toggleCalls' = [toggleCalls EXCEPT ![1] =
          [pc |-> "called", id |-> selectedProperty.id, contacted_agent |-> FALSE]]
    /\ UNCHANGED <<selectedProperty, isLoading, isDeleting, newLeads,
                   recentlyContactedProperties, fetchCall, deleteClosure>>
    /\ UNCHANGED <<storeVars, delVars, toggleOk, toggleInitial>>
    /\ ClientFrame

\* Lines 129-167: after the await the handler updates the selection and
\* moves the entry between the lists, all computed from the captured state;
\* an error is logged; the finally block.
handleToggleContact_resume ==
    /\ isToggling
    /\ toggleCalls[1].pc \in {"ok", "failed"}
    /\ LET was == toggleClosure.selectedProperty
           propertyForList == LeadOf(was)
       IN  IF toggleCalls[1].pc = "failed"
           THEN UNCHANGED <<selectedProperty, newLeads, recentlyContactedProperties>>
           ELSE /\ selectedProperty' =
                      [was EXCEPT !.contacted_agent = ~was.contacted_agent]
                /\ IF ~was.contacted_agent
                   THEN /\ newLeads' = FilterId(toggleClosure.newLeads, was.id)
                        /\ recentlyContactedProperties' = <<propertyForList>> \o
                              toggleClosure.recentlyContactedProperties
                   ELSE /\ recentlyContactedProperties' = FilterId(
                              toggleClosure.recentlyContactedProperties, was.id)
                        /\ newLeads' = <<propertyForList>> \o toggleClosure.newLeads
    /\ isToggling' = FALSE
    /\ toggleCalls' = [toggleCalls EXCEPT ![1] = NoCall]
    /\ toggleClosure' = NoClosure
    /\ UNCHANGED <<isLoading, isDeleting, fetchCall, deleteClosure>>
    /\ UNCHANGED <<storeVars, delVars, toggleOk, toggleInitial>>
    /\ ClientFrame

\* Lines 171-179 and 531, 665: the delete button of the detail panel and
\* the confirmation; the handler keeps the state of its render and calls
\* deleteProperty.  A behaviour has one delete, as in the delete model.
handleDeleteProperty ==
    /\ ~isLoading
    /\ selectedProperty.id # 0
    /\ ~isDeleting
    /\ delPc = "idle"
    /\ isDeleting' = TRUE
    /\ deleteClosure' = [selectedProperty |-> selectedProperty,
                         newLeads |-> newLeads,
                         recentlyContactedProperties |-> recentlyContactedProperties]
    /\ delPc' = "other"
    /\ delId' = selectedProperty.id
    /\ tx' = NoTx
    /\ delBefore' = Tables
    /\ delResult' = "none"
    /\ delFailedAt' = "none"
    /\ UNCHANGED <<selectedProperty, isLoading, isToggling, newLeads,
                   recentlyContactedProperties, fetchCall, toggleClosure>>
    /\ UNCHANGED <<storeVars, toggleVars>>
    /\ ClientFrame

\* Lines 181-205: after the await the selection is cleared and the entry
\* is removed from the list the captured flag names; the finally block.
handleDeleteProperty_resume ==
    /\ isDeleting
    /\ delPc = "done"
    /\ LET was == deleteClosure.selectedProperty
       IN  IF delResult # "success"
           THEN UNCHANGED <<selectedProperty, newLeads, recentlyContactedProperties>>
           ELSE /\ selectedProperty' = NoSelection
                /\ IF was.contacted_agent = FALSE
                   THEN /\ newLeads' = FilterId(deleteClosure.newLeads, was.id)
                        /\ UNCHANGED recentlyContactedProperties
                   ELSE /\ recentlyContactedProperties' = FilterId(
                              deleteClosure.recentlyContactedProperties, was.id)
                        /\ UNCHANGED newLeads
    /\ isDeleting' = FALSE
    /\ deleteClosure' = NoClosure
    /\ UNCHANGED delVars
    /\ UNCHANGED <<isLoading, isToggling, fetchCall, toggleClosure>>
    /\ UNCHANGED <<storeVars, toggleVars>>
    /\ ClientFrame

\* page.tsx 8-21: the page is rendered from a store of MaxProps
\* properties, contacted or not: property 1 is selected and the lists are
\* the results of the two queries.
InitWorkbench ==
    /\ \E n \in {MaxProps} : \E flags \in [1..n -> BOOLEAN] :
        /\ property = [p \in 1..n |->
              [SeedProperty(n)[p] EXCEPT !.contacted_agent = flags[p]]]
        /\ nextId = [property |-> n + 1, other_images |-> 1,
                     unstaged_images |-> 1, generated_images |-> 1]
    /\ other_images = {}
    /\ unstaged_images = {}
    /\ generated_images = {}
    /\ selectedProperty = Selected(FindUnique(1)[1])
    /\ newLeads = getLeads(FALSE)
    /\ recentlyContactedProperties = getLeads(TRUE)
    /\ isLoading = FALSE
    /\ isToggling = FALSE
    /\ isDeleting = FALSE
    /\ fetchCall = NoFetch
    /\ toggleClosure = NoClosure
    /\ deleteClosure = NoClosure
    /\ ToggleIdle /\ PipelinesIdle
    /\ PublishIdle /\ DeleteIdle /\ SearchIdle /\ UploadIdle /\ TwiceIdle
    /\ NormalizeIdle

NextWorkbench ==
    \/ fetchProperty
    \/ getPropertyById
    \/ fetchProperty_resume
    \/ handleToggleContact
    \/ toggleContactedAgent_findUnique
    \/ toggleContactedAgent_write
    \/ handleToggleContact_resume
    \/ handleDeleteProperty
    \/ deleteProperty_otherImage
    \/ deleteProperty_generatedImage
    \/ deleteProperty_unstagedImage
    \/ deleteProperty_property
    \/ deleteProperty_commit
    \/ handleDeleteProperty_resume

SpecWorkbench == InitWorkbench /\ [][NextWorkbench]_vars

NoDuplicates(list) ==
    \A i, j \in 1..Len(list) : list[i].id = list[j].id => i = j

ListedWithFlag(list, flag) ==
    \A i \in 1..Len(list) :
        \E j \in 1..Len(property) :
            /\ property[j].id = list[i].id
            /\ property[j].contacted_agent = flag

\* C30: once every pending action of the workbench has completed, the two
\* lists are disjoint, hold no id twice and no deleted property, and each
\* property is in the list that matches its stored contacted flag.
C30_ListsMatchStore ==
    (~isLoading /\ ~isToggling /\ ~isDeleting) =>
        /\ ListedIds(newLeads) \cap ListedIds(recentlyContactedProperties) = {}
        /\ NoDuplicates(newLeads)
        /\ NoDuplicates(recentlyContactedProperties)
        /\ ListedWithFlag(newLeads, FALSE)
        /\ ListedWithFlag(recentlyContactedProperties, TRUE)

----------------------------------------------------------------------------
(* ImageUploader: invocations of handleFileUpload side by side *)

\* The values applyWatermark gives watermarkProgress, in order (lines 38,
\* 46, 58, 85 and 102).
WatermarkSteps == <<10, 40, 70, 90, 100>>

Running(slots) == {slot \in 1..MaxPipelines : slots[slot].pc \notin {"idle", "done"}}

PipelineFrame ==
    /\ UNCHANGED <<upPc, upFile, upPropertyId, upStreet, formData, upKey,
                   upResult, upRuns, upEvents, upFailedAt, upBefore, surfaced>>
    /\ UNCHANGED <<pubVars, delVars, searchVars, againVars, twiceVars, normVars,
                   toggleVars, clientVars>>

\* Lines 224-235 and 255-292, 166-181: a file is dropped on the paste area
\* or pasted, whether or not an upload is running; handleFileUpload
\* validates it, sets the three states and calls processImage (line 135).
handleDrop ==
    /\ \E slot \in 1..MaxPipelines : \E type \in FileTypes :
        /\ pipelines[slot].pc = "idle"
        /\ \A earlier \in 1..(slot - 1) : pipelines[earlier].pc # "idle"
        /\ IF ~IsImageType(type)
           THEN /\ errorMessage' = "Please upload an image file"
                /\ timers' = Schedule("errorMessage")
                /\ pipelines' = [pipelines EXCEPT ![slot].pc = "done"]
                /\ UNCHANGED <<isUploading, uploadSuccess, compressionProgress>>
           ELSE /\ isUploading' = TRUE
                /\ errorMessage' = NoMessage
                /\ uploadSuccess' = FALSE
                /\ compressionProgress' = 0
                /\ pipelines' = [pipelines EXCEPT ![slot].pc = "compress"]
                /\ UNCHANGED timers
    /\ UNCHANGED <<storeVars, s3, watermarkProgress>>
    /\ PipelineFrame

\* Lines 144-146: onProgress of one of the running compressions.
imageCompression_onProgress ==
    /\ \E slot \in 1..MaxPipelines : pipelines[slot].pc = "compress"
    /\ \E progress \in ProgressReports : compressionProgress' = progress
    /\ UNCHANGED <<storeVars, s3, pipelines, isUploading, uploadSuccess,
                   errorMessage, watermarkProgress, timers>>
    /\ PipelineFrame

\* Lines 150-159, 183 and 36-38: a compression resolves and applyWatermark
\* starts.
imageCompression_resolve ==
    /\ \E slot \in 1..MaxPipelines :
        /\ pipelines[slot].pc = "compress"
        /\ pipelines' = [pipelines EXCEPT ![slot].pc = "watermark", ![slot].at = 1]
    /\ watermarkProgress' = WatermarkSteps[1]
    /\ UNCHANGED <<storeVars, s3, isUploading, uploadSuccess, errorMessage,
                   compressionProgress, timers>>
    /\ PipelineFrame

\* Lines 45-102: the next callback of applyWatermark runs.
applyWatermark_callback ==
    /\ \E slot \in 1..MaxPipelines :
        /\ pipelines[slot].pc = "watermark"
        /\ pipelines[slot].at < Len(WatermarkSteps)
        /\ pipelines' = [pipelines EXCEPT ![slot].at = @ + 1]
        /\ watermarkProgress' = WatermarkSteps[pipelines[slot].at + 1]
    /\ UNCHANGED <<storeVars, s3, isUploading, uploadSuccess, errorMessage,
                   compressionProgress, timers>>
    /\ PipelineFrame

\* Lines 186-192 and actions.ts 116-183: the watermarked file is sent; the
\* server stores the object and the row, or fails at the put or at the row.
uploadImageToS3_call ==
    /\ \E slot \in 1..MaxPipelines : \E randomString \in RandomStrings :
        /\ pipelines[slot].pc = "watermark"
        /\ pipelines[slot].at = Len(WatermarkSteps)
        /\ LET key == FileName(slugifyAddress(upStreet), randomString)
           IN  \/ /\ s3' = s3 \cup {key}
                  /\ generated_images' = generated_images \cup
                        {[id |-> nextId.generated_images,
                          property_id |-> upPropertyId, image_url |-> key]}
                  /\ nextId' = [nextId EXCEPT !.generated_images = @ + 1]
                  /\ pipelines' = [pipelines EXCEPT ![slot].pc = "result",
                        ![slot].success = TRUE]
               \/ \E message \in PutErrors :
                  /\ pipelines' = [pipelines EXCEPT ![slot].pc = "result",
                        ![slot].error = message]
                  /\ UNCHANGED <<s3, generated_images, nextId>>
               \/ /\ s3' = s3 \cup {key}
                  /\ pipelines' = [pipelines EXCEPT ![slot].pc = "result",
                        ![slot].error = CreateError]
                  /\ UNCHANGED <<generated_images, nextId>>
    /\ UNCHANGED <<property, other_images, unstaged_images>>
    /\ UNCHANGED <<isUploading, uploadSuccess, errorMessage, compressionProgress,
                   watermarkProgress, timers>>
    /\ PipelineFrame

\* Lines 194-212: the result arrives; the finally block of that invocation.
handleFileUpload_finally(slot) ==
    /\ isUploading' = FALSE
    /\ compressionProgress' = 0
    /\ watermarkProgress' = 0

handleFileUpload_return ==
    /\ \E slot \in 1..MaxPipelines :
        /\ pipelines[slot].pc = "result"
        /\ IF pipelines[slot].success
           THEN /\ uploadSuccess' = TRUE
                /\ timers' = Schedule("uploadSuccess")
                /\ UNCHANGED errorMessage
           ELSE /\ errorMessage' = ShownError(pipelines[slot].error)
                /\ timers' = Schedule("errorMessage")
                /\ UNCHANGED uploadSuccess
        /\ handleFileUpload_finally(slot)
        /\ pipelines' = [pipelines EXCEPT ![slot].pc = "done"]
    /\ UNCHANGED <<storeVars, s3>>
    /\ PipelineFrame

\* Lines 160-163, 52, 65, 91, 123 and 204-212: the compression or a step
\* of applyWatermark rejects; the catch and the finally block.
handleFileUpload_catch ==
    /\ \E slot \in 1..MaxPipelines :
        /\ pipelines[slot].pc \in {"compress", "watermark"}
        /\ errorMessage' = GenericMessage
        /\ timers' = Schedule("errorMessage")
        /\ handleFileUpload_finally(slot)
        /\ pipelines' = [pipelines EXCEPT ![slot].pc = "done"]
    /\ UNCHANGED <<storeVars, s3, uploadSuccess>>
    /\ PipelineFrame

\* An uploader mounted for the one property of the store; nothing dropped.
InitPipelines ==
    /\ property = <<PropertyRow(7, [street_address |-> NULL,
                       listing_status |-> NULL,
                       display_name |-> NULL, phone_number |-> NULL])>>
    /\ other_images = {}
    /\ unstaged_images = {}
    /\ generated_images = {}
    /\ nextId = [property |-> 8, other_images |-> 1, unstaged_images |-> 1,
                 generated_images |-> 1]
    /\ upPc = "idle"
    /\ upFile = <<>>
    /\ upPropertyId = 7
    /\ upStreet = NULL
    /\ formData = NoFormData
    /\ upKey = <<>>
    /\ upResult = NoUpload
    /\ isUploading = FALSE
    /\ uploadSuccess = FALSE
    /\ errorMessage = NoMessage
    /\ compressionProgress = 0
    /\ watermarkProgress = 0
    /\ timers = NoTimers
    /\ s3 = {}
    /\ upRuns = 0
    /\ upEvents = <<>>
    /\ upFailedAt = "none"
    /\ upBefore = EmptyTables
    /\ surfaced = {}
    /\ PipelinesIdle /\ ToggleIdle /\ ClientIdle
    /\ PublishIdle /\ DeleteIdle /\ SearchIdle /\ TwiceIdle /\ NormalizeIdle

NextPipelines ==
    \/ handleDrop
    \/ imageCompression_onProgress
    \/ imageCompression_resolve
    \/ applyWatermark_callback
    \/ uploadImageToS3_call
    \/ handleFileUpload_return
    \/ handleFileUpload_catch
    \/ timeout_errorMessage
    \/ timeout_uploadSuccess

SpecPipelines == InitPipelines /\ [][NextPipelines]_vars

\* An invocation ends in this step while another one goes on.
EndsBesideAnother ==
    /\ Running(pipelines') # {}
    /\ Running(pipelines') # Running(pipelines)
    /\ Running(pipelines') \subseteq Running(pipelines)

\* C29: isUploading is true whenever an invocation that passed validation
\* has not finished, and the completion of one invocation neither clears
\* isUploading nor resets the progress counters of another one running.
C29_UploadingWhileAnyRuns ==
    /\ [](Running(pipelines) # {} => isUploading)
    /\ [][EndsBesideAnother =>
            /\ isUploading'
            /\ compressionProgress' = compressionProgress
            /\ watermarkProgress' = watermarkProgress]_vars

====
